---- MODULE Spec2Model ----
(***************************************************************************)
(* Model of the gurmat-veechar local mirror store (services/database.ts),  *)
(* the folder sync scheduler (services/folderSync.ts, services/api.ts) and *)
(* the playback session (services/audioPlayer, stores/audioStore).         *)
(*                                                                         *)
(* Paths and URLs are sequences of path segments: the folder "/A/B" is     *)
(* <<"A", "B">>, the root listing is <<>>, and an audio URL is the audio   *)
(* base URL followed by the segments below it.                             *)
(* A nullable SQL column or an optional argument is <<>> (NULL, undefined) *)
(* or <<v>>.                                                               *)
(***************************************************************************)
EXTENDS Integers, Sequences, FiniteSets, TLC

VARIABLES
  tracks,                 \* table tracks: track_url -> row
  dbCalls,                \* store callers between their two statements
  seed,                   \* table ZCACHEDFOLDERRECORD (bundled snapshot)
  cached_folders,         \* table cached_folders, in rowid order
  asyncStorage,           \* AsyncStorage: key -> stored timestamp
  now,                    \* Date.now(), in days
  favorites,              \* table favorites: folder_path -> row
  ZFAVORITEFOLDERRECORD,  \* table ZFAVORITEFOLDERRECORD (bundled snapshot)
  syncTasks,              \* sync / fetch flows in flight
  audioStore,             \* zustand audio store
  autoplay,               \* settings store: autoplay
  player,                 \* module variable player (engine handle or NULL)
  statusSubscription,     \* module variable statusSubscription
  positionUpdateInterval, \* module variable positionUpdateInterval
  engines,                \* the engine handles created so far
  playCalls,              \* playback calls in flight
  searchQuery,            \* browse screen: state searchQuery
  searchResults,          \* browse screen: state searchResults
  isSearching,            \* browse screen: state isSearching
  searchTimeoutRef,       \* browse screen: the pending debounce timer and its query
  latestQueryRef,         \* browse screen: latestQueryRef.current
  searches                \* browse screen: performSearch calls in flight

storeVars == <<tracks, dbCalls>>
favVars == <<favorites, ZFAVORITEFOLDERRECORD>>
syncVars == <<seed, cached_folders, asyncStorage, syncTasks>>
playVars == <<audioStore, autoplay, player, statusSubscription, positionUpdateInterval, engines, playCalls>>
searchVars == <<searchQuery, searchResults, isSearching, searchTimeoutRef, latestQueryRef, searches>>
vars == <<tracks, dbCalls, seed, cached_folders, asyncStorage, now, favorites, ZFAVORITEFOLDERRECORD, syncTasks, audioStore, autoplay, player, statusSubscription, positionUpdateInterval, engines, playCalls, searchQuery, searchResults, isSearching, searchTimeoutRef, latestQueryRef, searches>>

None == <<>>

Some(v) == <<v>>

\* JS "x ?? d"
OrElse(opt, d) == IF opt = None THEN d ELSE opt[1]

\* JS "x ? 1 : 0" on an optional boolean
Flag(opt) == IF opt # None /\ opt[1] THEN 1 ELSE 0

\* SQL COALESCE(a, b)
COALESCE(a, b) == IF a # None THEN a ELSE b

\* JS "x > 0" on a nullable number
Num(opt) == IF opt = None THEN 0 ELSE opt[1]

Last(s) == s[Len(s)]

AUDIO_BASE_URL == "https://gurmatveechar.com/audios"

(***************************************************************************)
(* Bounds of the model.                                                    *)
(***************************************************************************)
MaxNow == 31

MaxDbCalls == 1

MaxSyncTasks == 2

\* Stands for MAX_SYNC_ENTRIES (1000, folderSync.ts line 7), scaled down so
\* that the folders of the model can exceed the cap.
MAX_SYNC_ENTRIES == 1

(***************************************************************************)
(* Table tracks (services/database.ts).                                    *)
(***************************************************************************)
\* A Partial<Track> & {trackUrl, trackName} with nothing else specified.
TrackPartial(trackUrl, trackName) ==
  [trackUrl |-> trackUrl, trackName |-> trackName, trackDuration |-> None,
   trackSizeBytes |-> None, currentPlaybackTime |-> None, isDownloaded |-> None,
   localFilePath |-> None, lastPlayedDate |-> None, downloadDate |-> None,
   isCompleted |-> None]

\* The ten values upsertTrack binds to its INSERT statement.
upsertValues(track) ==
  [track_url |-> track.trackUrl,
   track_name |-> track.trackName,
   track_duration |-> Some(OrElse(track.trackDuration, 0)),
   track_size_bytes |-> Some(OrElse(track.trackSizeBytes, 0)),
   current_playback_time |-> Some(OrElse(track.currentPlaybackTime, 0)),
   is_downloaded |-> Some(Flag(track.isDownloaded)),
   local_file_path |-> track.localFilePath,
   last_played_date |-> track.lastPlayedDate,
   download_date |-> track.downloadDate,
   is_completed |-> Some(Flag(track.isCompleted))]

\* INSERT ... ON CONFLICT(track_url) DO UPDATE SET c = COALESCE(excluded.c, c)
upsertTrack(tbl, track) ==
  LET excluded == upsertValues(track)
      url == track.trackUrl
      old == tbl[url]
      merged == [track_url |-> url,
                 track_name |-> excluded.track_name,
                 track_duration |-> COALESCE(excluded.track_duration, old.track_duration),
                 track_size_bytes |-> COALESCE(excluded.track_size_bytes, old.track_size_bytes),
                 current_playback_time |-> COALESCE(excluded.current_playback_time, old.current_playback_time),
                 is_downloaded |-> COALESCE(excluded.is_downloaded, old.is_downloaded),
                 local_file_path |-> COALESCE(excluded.local_file_path, old.local_file_path),
                 last_played_date |-> COALESCE(excluded.last_played_date, old.last_played_date),
                 download_date |-> COALESCE(excluded.download_date, old.download_date),
                 is_completed |-> COALESCE(excluded.is_completed, old.is_completed)]
  IN [u \in DOMAIN tbl \cup {url} |->
        IF u # url THEN tbl[u]
        ELSE IF url \in DOMAIN tbl THEN merged ELSE excluded]

\* UPDATE tracks SET current_playback_time, is_completed, last_played_date WHERE track_url
updateTrackPosition(tbl, trackUrl, position, isCompleted, date) ==
  [u \in DOMAIN tbl |->
     IF u = trackUrl
     THEN [tbl[u] EXCEPT !.current_playback_time = Some(position),
                         !.is_completed = Some(IF isCompleted THEN 1 ELSE 0),
                         !.last_played_date = Some(date)]
     ELSE tbl[u]]

\* The name markTrackCompleted gives a record it creates: the last URL segment.
fileNameOf(trackUrl) == IF Len(trackUrl) = 0 THEN "Unknown" ELSE Last(trackUrl)

\* A mutation of markTrackCompletedUpdate: the flag is set, the position stays.
markTrackCompletedFlagOnly(tbl, trackUrl, isCompleted) ==
  [u \in DOMAIN tbl |->
     IF u = trackUrl
     THEN [tbl[u] EXCEPT !.is_completed = Some(IF isCompleted THEN 1 ELSE 0)]
     ELSE tbl[u]]

\* Second statement of markTrackCompleted.
markTrackCompletedUpdate(tbl, trackUrl, isCompleted) ==
  [u \in DOMAIN tbl |->
     IF u = trackUrl
     THEN [tbl[u] EXCEPT !.is_completed = Some(IF isCompleted THEN 1 ELSE 0),
                         !.current_playback_time =
                            IF isCompleted THEN Some(0) ELSE tbl[u].current_playback_time]
     ELSE tbl[u]]

\* UPDATE tracks SET is_downloaded = 1, local_file_path, track_size_bytes, download_date
markTrackDownloaded(tbl, trackUrl, localFilePath, sizeBytes, date) ==
  [u \in DOMAIN tbl |->
     IF u = trackUrl
     THEN [tbl[u] EXCEPT !.is_downloaded = Some(1),
                         !.local_file_path = Some(localFilePath),
                         !.track_size_bytes = Some(sizeBytes),
                         !.download_date = Some(date)]
     ELSE tbl[u]]

\* UPDATE tracks SET is_downloaded = 0, local_file_path = NULL
deleteDownloadedTrack(tbl, trackUrl) ==
  [u \in DOMAIN tbl |->
     IF u = trackUrl
     THEN [tbl[u] EXCEPT !.is_downloaded = Some(0), !.local_file_path = None]
     ELSE tbl[u]]

\* SELECT * FROM tracks WHERE track_url = ? mapped to a Track, or None.
getTrack(tbl, trackUrl) ==
  IF trackUrl \notin DOMAIN tbl THEN None
  ELSE LET row == tbl[trackUrl] IN
       Some([trackUrl |-> row.track_url,
             trackName |-> row.track_name,
             trackDuration |-> row.track_duration,
             trackSizeBytes |-> row.track_size_bytes,
             currentPlaybackTime |-> row.current_playback_time,
             isDownloaded |-> row.is_downloaded = Some(1),
             localFilePath |-> row.local_file_path,
             lastPlayedDate |-> row.last_played_date,
             downloadDate |-> row.download_date,
             isCompleted |-> row.is_completed = Some(1)])

\* downloadManager.getLocalFilePath: the downloads directory plus the file name.
getLocalFilePath(trackUrl) == <<"downloads", Last(trackUrl)>>

(***************************************************************************)
(* Callers of the tracks table, one action per statement.                  *)
(***************************************************************************)
TrackA1 == <<AUDIO_BASE_URL, "A", "t1.mp3">>

TrackA2 == <<AUDIO_BASE_URL, "A", "t2.mp3">>

TrackUrls == {TrackA1, TrackA2}

\* The partial records the store specification upserts: the bare record of
\* playTrack, the download fields of downloadTrack, position fields, a
\* duration, and a fully specified record.
StorePartials(url) ==
  LET bare == TrackPartial(url, Last(url)) IN
  { bare,
    [bare EXCEPT !.isDownloaded = Some(TRUE), !.localFilePath = Some(getLocalFilePath(url)),
                 !.trackSizeBytes = Some(5), !.downloadDate = Some(now)],
    [bare EXCEPT !.currentPlaybackTime = Some(40), !.lastPlayedDate = Some(now)],
    [bare EXCEPT !.trackDuration = Some(1000)],
    [bare EXCEPT !.trackDuration = Some(1000), !.trackSizeBytes = Some(5),
                 !.currentPlaybackTime = Some(40), !.isDownloaded = Some(TRUE),
                 !.localFilePath = Some(getLocalFilePath(url)), !.lastPlayedDate = Some(now),
                 !.downloadDate = Some(now), !.isCompleted = Some(TRUE)] }

IdleCall == [op |-> "idle"]

UpsertTrackCall(track) ==
  /\ tracks' = upsertTrack(tracks, track)
  /\ UNCHANGED <<dbCalls, now, favVars, searchVars, syncVars, playVars>>

UpdateTrackPositionCall(url, position, isCompleted) ==
  /\ tracks' = updateTrackPosition(tracks, url, position, isCompleted, now)
  /\ UNCHANGED <<dbCalls, now, favVars, searchVars, syncVars, playVars>>

\* markTrackCompleted, first statement: ensure the track exists.
MarkTrackCompletedUpsert(c, url, isCompleted) ==
  /\ dbCalls[c] = IdleCall
  /\ tracks' = upsertTrack(tracks, TrackPartial(url, fileNameOf(url)))
  /\ dbCalls' = [dbCalls EXCEPT ![c] = [op |-> "markTrackCompleted", url |-> url, isCompleted |-> isCompleted]]
  /\ UNCHANGED <<now, favVars, searchVars, syncVars, playVars>>

\* markTrackCompleted, second statement.
MarkTrackCompletedUpdate(c) ==
  /\ dbCalls[c].op = "markTrackCompleted"
  /\ tracks' = markTrackCompletedUpdate(tracks, dbCalls[c].url, dbCalls[c].isCompleted)
  /\ dbCalls' = [dbCalls EXCEPT ![c] = IdleCall]
  /\ UNCHANGED <<now, favVars, searchVars, syncVars, playVars>>

\* downloadTrack after the file arrived: upsert the download fields.
DownloadTrackUpsert(c, url, sizeBytes) ==
  /\ dbCalls[c] = IdleCall
  /\ tracks' = upsertTrack(tracks,
        [TrackPartial(url, Last(url)) EXCEPT !.isDownloaded = Some(TRUE),
           !.localFilePath = Some(getLocalFilePath(url)),
           !.trackSizeBytes = Some(sizeBytes), !.downloadDate = Some(now)])
  /\ dbCalls' = [dbCalls EXCEPT ![c] = [op |-> "downloadTrack", url |-> url, sizeBytes |-> sizeBytes]]
  /\ UNCHANGED <<now, favVars, searchVars, syncVars, playVars>>

\* downloadTrack: markTrackDownloaded.
DownloadTrackMark(c) ==
  /\ dbCalls[c].op = "downloadTrack"
  /\ tracks' = markTrackDownloaded(tracks, dbCalls[c].url, getLocalFilePath(dbCalls[c].url),
                                   dbCalls[c].sizeBytes, now)
  /\ dbCalls' = [dbCalls EXCEPT ![c] = IdleCall]
  /\ UNCHANGED <<now, favVars, searchVars, syncVars, playVars>>

\* deleteDownload: clears the download fields of the record.
DeleteDownloadCall(url) ==
  /\ tracks' = deleteDownloadedTrack(tracks, url)
  /\ UNCHANGED <<dbCalls, now, favVars, searchVars, syncVars, playVars>>

(***************************************************************************)
(* Structural extractor (parseHtmlResponse of folderSync.ts and api.ts).   *)
(* A listing page is the sequence of its links in document order; a link   *)
(* is [kind, path]: a folder link carries the decoded f= parameter, an     *)
(* audio link the decoded path below /audios.                              *)
(***************************************************************************)
IsPrefix(p, q) == Len(p) <= Len(q) /\ SubSeq(q, 1, Len(p)) = p

\* q.startsWith(p + '/')
StartsWithSlash(q, p) == Len(p) < Len(q) /\ IsPrefix(p, q)

Front(s) == SubSeq(s, 1, Len(s) - 1)

\* rawName.replace(/_/g, ' ').replace(/^\d+\s*/, '').trim() || rawName
FolderDisplayName(rawName) ==
  CASE rawName = "01_B" -> "B"
    [] rawName = "2024" -> "2024"
    [] OTHER -> rawName

\* fileName without .mp3, dots to spaces, "--" to " - ", spaces collapsed
AudioDisplayName(fileName) ==
  CASE fileName = "t1.mp3" -> "t1"
    [] fileName = "t2.mp3" -> "t2"
    [] fileName = "t3.mp3" -> "t3"
    [] fileName = "05--G.S.mp3" -> "05 - G S"
    [] OTHER -> fileName

SeenPaths(items) == {items[i].itemPath : i \in 1..Len(items)}

\* A mutation of parseFolderLinks: the test for a further '/' is left out, so
\* every descendant is kept.
RECURSIVE parseFolderLinksDeep(_, _, _, _)
parseFolderLinksDeep(html, parentPath, date, items) ==
  IF html = <<>> THEN items
  ELSE LET link == Head(html)
           itemPath == link.path
           skip == \/ link.kind # "folder"
                   \/ itemPath = parentPath
                   \/ StartsWithSlash(parentPath, itemPath)
                   \/ ~StartsWithSlash(itemPath, parentPath)
                   \/ itemPath \in SeenPaths(items)
           item == [parentPath |-> parentPath,
                    itemName |-> FolderDisplayName(Last(itemPath)),
                    itemPath |-> itemPath,
                    itemType |-> "folder",
                    sortOrder |-> Len(items),
                    lastUpdated |-> date]
       IN parseFolderLinksDeep(Tail(html), parentPath, date,
                               IF skip THEN items ELSE Append(items, item))

RECURSIVE parseFolderLinks(_, _, _, _)
parseFolderLinks(html, parentPath, date, items) ==
  IF html = <<>> THEN items
  ELSE LET link == Head(html)
           itemPath == link.path
           skip == \/ link.kind # "folder"
                   \/ itemPath = parentPath
                   \/ StartsWithSlash(parentPath, itemPath)
                   \/ ~StartsWithSlash(itemPath, parentPath)
                   \/ Len(itemPath) > Len(parentPath) + 1
                   \/ itemPath \in SeenPaths(items)
           item == [parentPath |-> parentPath,
                    itemName |-> FolderDisplayName(Last(itemPath)),
                    itemPath |-> itemPath,
                    itemType |-> "folder",
                    sortOrder |-> Len(items),
                    lastUpdated |-> date]
       IN parseFolderLinks(Tail(html), parentPath, date,
                           IF skip THEN items ELSE Append(items, item))

RECURSIVE parseAudioLinks(_, _, _, _)
parseAudioLinks(html, parentPath, date, items) ==
  IF html = <<>> THEN items
  ELSE LET link == Head(html)
           audioPath == link.path
           itemPath == <<AUDIO_BASE_URL>> \o audioPath
           \* '/' + audioPath.substring(1, lastIndexOf('/')): for a file directly
           \* below /audios substring(1, 0) is "/", and "//" is no folder path
           skip == \/ link.kind # "audio"
                   \/ Len(audioPath) < 2
                   \/ Front(audioPath) # parentPath
                   \/ itemPath \in SeenPaths(items)
           item == [parentPath |-> parentPath,
                    itemName |-> AudioDisplayName(Last(audioPath)),
                    itemPath |-> itemPath,
                    itemType |-> "audio",
                    sortOrder |-> Len(items),
                    lastUpdated |-> date]
       IN parseAudioLinks(Tail(html), parentPath, date,
                          IF skip THEN items ELSE Append(items, item))

\* A truncated escape sequence as it stands in a link parameter.
MalformedEscape == "%E0%A4%A"

\* decodeURIComponent(match[1]) raises URIError when an escape is malformed.
decodeURIComponentThrows(path) == \E i \in 1..Len(path) : path[i] = MalformedEscape

\* Both loops decode every match before any filter and nothing catches the
\* error, so parseHtmlResponse throws as soon as one matched link is malformed.
parseHtmlResponseThrows(html) == \E k \in 1..Len(html) : decodeURIComponentThrows(html[k].path)

\* The entries of a listing whose links all decode.
parseHtmlResponse(html, parentPath, date) ==
  parseAudioLinks(html, parentPath, date, parseFolderLinks(html, parentPath, date, <<>>))

\* items.map((item, index) => ({...item, id: index + 1}))
WithIds(items) ==
  [i \in 1..Len(items) |->
     [id |-> i, parentPath |-> items[i].parentPath, itemName |-> items[i].itemName,
      itemPath |-> items[i].itemPath, itemType |-> items[i].itemType,
      sortOrder |-> items[i].sortOrder, lastUpdated |-> items[i].lastUpdated]]

(***************************************************************************)
(* Favorites: table favorites, folder_path (UNIQUE) -> row, and the        *)
(* snapshot's table ZFAVORITEFOLDERRECORD, a sequence of rows.             *)
(***************************************************************************)

\* SELECT ... FROM ZFAVORITEFOLDERRECORD first; table favorites only when the
\* snapshot has no row (or no such table). The rows, as a set of Favorite.
getFavorites(seedRows, table) ==
  IF Len(seedRows) > 0
  THEN {[folderPath |-> seedRows[i].ZFOLDERPATH, folderName |-> seedRows[i].ZFOLDERNAME,
         dateAdded |-> seedRows[i].ZDATEADDED * 1000] : i \in 1..Len(seedRows)}
  ELSE {[folderPath |-> folderPath, folderName |-> table[folderPath].folder_name,
         dateAdded |-> table[folderPath].date_added] : folderPath \in DOMAIN table}

\* INSERT OR IGNORE INTO favorites (folder_path, folder_name, date_added)
addFavorite(table, folderPath, folderName, date) ==
  IF folderPath \in DOMAIN table THEN table
  ELSE table @@ (folderPath :> [folder_name |-> folderName, date_added |-> date])

\* DELETE FROM favorites WHERE folder_path = ?
removeFavorite(table, folderPath) ==
  [other \in DOMAIN table \ {folderPath} |-> table[other]]

\* SELECT COUNT(*) FROM favorites WHERE folder_path = ?
isFavorite(table, folderPath) == folderPath \in DOMAIN table

AddFavoriteCall(folderPath, folderName) ==
  /\ favorites' = addFavorite(favorites, folderPath, folderName, now)
  /\ UNCHANGED <<storeVars, now, ZFAVORITEFOLDERRECORD, syncVars, playVars, searchVars>>

RemoveFavoriteCall(folderPath) ==
  /\ favorites' = removeFavorite(favorites, folderPath)
  /\ UNCHANGED <<storeVars, now, ZFAVORITEFOLDERRECORD, syncVars, playVars, searchVars>>

(***************************************************************************)
(* Tree mirror: tables ZCACHEDFOLDERRECORD (seed) and cached_folders.      *)
(***************************************************************************)
\* Collation rank of the item names of the model, for ORDER BY item_name.
NameRank(name) ==
  CASE name = "05 - G S" -> 1
    [] name = "2024" -> 2
    [] name = "B" -> 3
    [] name = "t1" -> 4
    [] name = "t2" -> 5
    [] name = "t3" -> 6
    [] OTHER -> 7

\* ORDER BY sort_order ASC, item_name ASC (rows equal in both: by rowid)
ItemBefore(a, b) ==
  \/ a.sortOrder < b.sortOrder
  \/ /\ a.sortOrder = b.sortOrder
     /\ \/ NameRank(a.itemName) < NameRank(b.itemName)
        \/ NameRank(a.itemName) = NameRank(b.itemName) /\ a.id < b.id

RECURSIVE OrderItems(_)
OrderItems(S) ==
  IF S = {} THEN <<>>
  ELSE LET first == CHOOSE a \in S : \A b \in S \ {a} : ItemBefore(a, b)
       IN <<first>> \o OrderItems(S \ {first})

\* SELECT ... FROM ZCACHEDFOLDERRECORD WHERE ZPARENTPATH = ? ORDER BY ZSORTORDER, ZITEMNAME
getCachedItemsFromSeed(seedRows, parentPath) ==
  OrderItems({ [id |-> seedRows[i].Z_PK,
                parentPath |-> seedRows[i].ZPARENTPATH,
                itemName |-> seedRows[i].ZITEMNAME,
                itemPath |-> seedRows[i].ZITEMPATH,
                itemType |-> seedRows[i].ZITEMTYPE,
                sortOrder |-> seedRows[i].ZSORTORDER,
                lastUpdated |-> seedRows[i].ZLASTUPDATED * 1000]
              : i \in {j \in 1..Len(seedRows) : seedRows[j].ZPARENTPATH = parentPath} })

\* SELECT * FROM cached_folders WHERE parent_path = ? ORDER BY sort_order, item_name
getCachedItems(rows, parentPath) ==
  OrderItems({ [id |-> rows[i].id,
                parentPath |-> rows[i].parent_path,
                itemName |-> rows[i].item_name,
                itemPath |-> rows[i].item_path,
                itemType |-> rows[i].item_type,
                sortOrder |-> rows[i].sort_order,
                lastUpdated |-> rows[i].last_updated]
              : i \in {j \in 1..Len(rows) : rows[j].parent_path = parentPath} })

\* Seed rows first; the cached_folders rows only when the seed has none.
getLocalCachedItems(seedRows, rows, parentPath) ==
  LET seedItems == getCachedItemsFromSeed(seedRows, parentPath) IN
  IF Len(seedItems) > 0 THEN seedItems ELSE getCachedItems(rows, parentPath)

\* A mutation of insertOrIgnore: a plain INSERT on a table without the unique index.
insertAlways(rows, item) ==
  Append(rows, [id |-> Len(rows) + 1, parent_path |-> item.parentPath,
                item_name |-> item.itemName, item_path |-> item.itemPath,
                item_type |-> item.itemType, sort_order |-> item.sortOrder,
                last_updated |-> item.lastUpdated])

\* A mutation of insertOrIgnore: every row is ignored.
insertIgnored(rows, item) == rows

\* A mutation of insertOrIgnore: INSERT OR REPLACE, which deletes the row that
\* holds the item_path and inserts the new one.
insertOrReplace(rows, item) ==
  Append(SelectSeq(rows, LAMBDA row : row.item_path # item.itemPath),
         [id |-> Len(rows) + 1, parent_path |-> item.parentPath,
          item_name |-> item.itemName, item_path |-> item.itemPath,
          item_type |-> item.itemType, sort_order |-> item.sortOrder,
          last_updated |-> item.lastUpdated])

\* INSERT OR IGNORE INTO cached_folders, under the unique index on item_path
insertOrIgnore(rows, item) ==
  IF \E i \in 1..Len(rows) : rows[i].item_path = item.itemPath
  THEN rows
  ELSE Append(rows, [id |-> Len(rows) + 1, parent_path |-> item.parentPath,
                     item_name |-> item.itemName, item_path |-> item.itemPath,
                     item_type |-> item.itemType, sort_order |-> item.sortOrder,
                     last_updated |-> item.lastUpdated])

\* The whole loop of saveCachedItems, run without interruption.
RECURSIVE saveCachedItems(_, _)
saveCachedItems(rows, items) ==
  IF items = <<>> THEN rows
  ELSE saveCachedItems(insertOrIgnore(rows, Head(items)), Tail(items))

\* apiItems.filter((item) => !existingPaths.has(item.itemPath))
RECURSIVE findNewItems(_, _)
findNewItems(apiItems, existingItems) ==
  IF apiItems = <<>> THEN <<>>
  ELSE (IF Head(apiItems).itemPath \in SeenPaths(existingItems) THEN <<>> ELSE <<Head(apiItems)>>)
       \o findNewItems(Tail(apiItems), existingItems)

(***************************************************************************)
(* Sync scheduler state in AsyncStorage (folderSync.ts). Time is in days.  *)
(***************************************************************************)
SYNC_PREFIX == "folderSync:"

SYNC_INTERVAL_MS == 30

CLEANUP_INTERVAL_MS == 7

CLEANUP_KEY == <<"folderSync:lastCleanup">>

SyncKey(folderPath) == <<SYNC_PREFIX>> \o folderPath

\* Date.now().toString(): the decimal digits of a natural number
RECURSIVE toString(_)
toString(n) == IF n < 10 THEN <<n>> ELSE toString(n \div 10) \o <<n % 10>>

\* parseInt(s, 10) of a digit string
RECURSIVE parseInt(_)
parseInt(s) == IF Len(s) = 1 THEN s[1] ELSE 10 * parseInt(Front(s)) + Last(s)

\* AsyncStorage.getItem: the stored string or None (null)
getItem(storage, key) == IF key \in DOMAIN storage THEN Some(storage[key]) ELSE None

setItem(storage, key, value) ==
  [k \in DOMAIN storage \cup {key} |-> IF k = key THEN value ELSE storage[k]]

multiRemove(storage, keys) ==
  [k \in DOMAIN storage \ {keys[i] : i \in 1..Len(keys)} |-> storage[k]]

\* A mutation of needsSync: the window test is >= instead of >.
needsSyncInclusive(storage, folderPath, date) ==
  LET lastSync == getItem(storage, SyncKey(folderPath)) IN
  IF lastSync = None \/ lastSync[1] = <<>> THEN TRUE
  ELSE date - parseInt(lastSync[1]) >= SYNC_INTERVAL_MS

\* needsSync once the read of the timestamp succeeded
needsSync(storage, folderPath, date) ==
  LET lastSync == getItem(storage, SyncKey(folderPath)) IN
  IF lastSync = None \/ lastSync[1] = <<>> THEN TRUE
  ELSE date - parseInt(lastSync[1]) > SYNC_INTERVAL_MS

\* allKeys.filter(key.startsWith(SYNC_PREFIX) && key !== CLEANUP_KEY)
syncKeysOf(storage) == {k \in DOMAIN storage : k # CLEANUP_KEY /\ k[1] = SYNC_PREFIX}

\* The entries multiGet yields for the keys, in key order, null values skipped.
RECURSIVE entriesOf(_, _)
entriesOf(storage, keys) ==
  IF keys = <<>> THEN <<>>
  ELSE (IF Head(keys) \in DOMAIN storage
        THEN <<[key |-> Head(keys), timestamp |-> parseInt(storage[Head(keys)])]>>
        ELSE <<>>) \o entriesOf(storage, Tail(keys))

\* entries.sort((a, b) => a.timestamp - b.timestamp): stable, oldest first
RECURSIVE sortByTimestamp(_)
sortByTimestamp(entries) ==
  IF entries = <<>> THEN <<>>
  ELSE LET i == CHOOSE j \in 1..Len(entries) :
                  /\ \A k \in 1..Len(entries) : entries[j].timestamp <= entries[k].timestamp
                  /\ \A k \in 1..(j - 1) : entries[k].timestamp > entries[j].timestamp
       IN <<entries[i]>> \o sortByTimestamp(SubSeq(entries, 1, i - 1) \o SubSeq(entries, i + 1, Len(entries)))

\* Array.prototype.slice(0, end): a negative end counts from the end
sliceTo(seq, end) ==
  LET e == IF end < 0 THEN (IF Len(seq) + end < 0 THEN 0 ELSE Len(seq) + end)
           ELSE (IF end > Len(seq) THEN Len(seq) ELSE end)
  IN SubSeq(seq, 1, e)

\* A mutation of keysToRemove: the newest entries are taken, not the oldest.
keysToRemoveNewest(storage, keys) ==
  LET entries == sortByTimestamp(entriesOf(storage, keys))
      newest == SubSeq(entries, MAX_SYNC_ENTRIES + 1, Len(entries))
  IN [i \in 1..Len(newest) |-> newest[i].key]

\* entries.slice(0, entries.length - MAX_SYNC_ENTRIES).map((e) => e.key)
keysToRemove(storage, keys) ==
  LET entries == sortByTimestamp(entriesOf(storage, keys))
      oldest == sliceTo(entries, Len(entries) - MAX_SYNC_ENTRIES)
  IN [i \in 1..Len(oldest) |-> oldest[i].key]

(***************************************************************************)
(* The remote site and the bundled seed of the model.                      *)
(***************************************************************************)
FolderLink(path) == [kind |-> "folder", path |-> path]

AudioLink(path) == [kind |-> "audio", path |-> path]

FolderA == <<"A">>

FolderB == <<"A", "01_B">>

SyncFolders == {FolderA, FolderB}

\* Listing of /A: breadcrumb to itself, its sub-folder (twice), a grandchild, one track.
PageA1 ==
  <<FolderLink(FolderA), FolderLink(FolderB), FolderLink(<<"A", "01_B", "X">>),
    AudioLink(<<"A", "t1.mp3">>), FolderLink(FolderB)>>

\* The same listing after a second track appeared remotely.
PageA2 == PageA1 \o <<AudioLink(<<"A", "t2.mp3">>)>>

PageB == <<FolderLink(FolderA), FolderLink(FolderB), AudioLink(<<"A", "01_B", "t3.mp3">>), AudioLink(<<"A", "t1.mp3">>)>>

\* The pages the listing endpoint can answer with for a folder (<<>>: no link).
RemotePages(folderPath) ==
  CASE folderPath = FolderA -> {PageA1, PageA2, <<>>}
    [] folderPath = FolderB -> {PageB}
    [] OTHER -> {<<>>}

\* fetch(url): network failure (0), an HTTP error, or 200 with a page
Responses(folderPath) ==
  {[status |-> 0, html |-> <<>>], [status |-> 500, html |-> <<>>]}
    \cup {[status |-> 200, html |-> h] : h \in RemotePages(folderPath)}

\* The listing of /A with one more sub-folder link, whose name is cut inside an escape.
PageMalformed == PageA1 \o <<FolderLink(<<"A", MalformedEscape>>)>>

MalformedResponses(folderPath) ==
  IF folderPath = FolderA THEN {[status |-> 200, html |-> PageMalformed]} ELSE {}

\* A bundled snapshot holding the children of /A as the crawler saw them.
SeedA ==
  <<[Z_PK |-> 1, ZPARENTPATH |-> FolderA, ZITEMNAME |-> "B", ZITEMPATH |-> FolderB,
     ZITEMTYPE |-> "folder", ZSORTORDER |-> 0, ZLASTUPDATED |-> 0],
    [Z_PK |-> 2, ZPARENTPATH |-> FolderA, ZITEMNAME |-> "t1", ZITEMPATH |-> TrackA1,
     ZITEMTYPE |-> "audio", ZSORTORDER |-> 1, ZLASTUPDATED |-> 0]>>

Seeds == {<<>>, SeedA}

\* The instants at which the clock is read.
Instants == {30, 31, 32, 38}

(***************************************************************************)
(* Sync flows: syncFolderIfNeeded ("passive"), forceSyncFolder ("force")   *)
(* and getAllCachedItems with fetchFolderContents ("fallback"). Each await *)
(* is one step; ok = FALSE is the awaited operation failing.               *)
(***************************************************************************)
NoTask ==
  [kind |-> "none", path |-> <<>>, pc |-> "idle", apiItems |-> <<>>, toSave |-> <<>>,
   keys |-> <<>>, nowc |-> 0, remote |-> "none", result |-> <<>>, notified |-> None,
   marked |-> None, failed |-> FALSE, outcome |-> "none"]

SyncTaskIds == 1..MaxSyncTasks

Task(t) == syncTasks[t]

\* The flow returns (or its promise settles) with the given outcome.
Finished(task, outcome) ==
  [task EXCEPT !.pc = "done", !.outcome = outcome, !.apiItems = <<>>, !.toSave = <<>>,
               !.keys = <<>>, !.nowc = 0]

\* An awaited operation failed in a flow.
Failing(task) == [task EXCEPT !.failed = TRUE]

StartSync(t, kind, folderPath) ==
  /\ Task(t).pc = "idle"
  /\ \A u \in 1..(t - 1) : Task(u).pc # "idle"
  /\ syncTasks' = [syncTasks EXCEPT ![t] =
       [NoTask EXCEPT !.kind = kind, !.path = folderPath, !.outcome = "running",
                      !.pc = CASE kind = "passive" -> "needsSync"
                               [] kind = "force" -> "fetch"
                               [] OTHER -> "readLocal"]]
  /\ UNCHANGED <<storeVars, seed, cached_folders, asyncStorage, now, favVars, searchVars, playVars>>

\* syncFolderIfNeeded: await needsSync(folderPath); a failed read counts as fresh.
NeedsSyncStep(t, ok) ==
  /\ Task(t).pc = "needsSync"
  /\ LET shouldSync == IF ok THEN needsSync(asyncStorage, Task(t).path, now) ELSE FALSE
         task == IF ok THEN Task(t) ELSE Failing(Task(t))
     IN syncTasks' = [syncTasks EXCEPT ![t] =
          IF shouldSync THEN [task EXCEPT !.pc = "fetch"] ELSE Finished(task, "notNeeded")]
  /\ UNCHANGED <<storeVars, seed, cached_folders, asyncStorage, now, favVars, searchVars, playVars>>

\* A mutation of Caught: the error leaves the flow instead of being caught.
CaughtRethrown(task) == Finished(Failing(task), "threw")

\* Where a flow continues after its try block caught an error.
Caught(task) ==
  CASE task.kind = "passive" -> Finished(Failing(task), "failed")
    [] task.kind = "force" -> [Failing(task) EXCEPT !.pc = "cachedRead"]
    [] OTHER -> Finished([Failing(task) EXCEPT !.result = <<>>], "returned")

\* fetchFolderFromApi / the fetch of fetchFolderContents, and the branch on its result.
FetchStep(t, response) ==
  /\ Task(t).pc = "fetch"
  /\ response \in Responses(Task(t).path) \cup MalformedResponses(Task(t).path)
  /\ LET items == parseHtmlResponse(response.html, Task(t).path, now)
         got == [Task(t) EXCEPT !.remote = IF Len(items) = 0 THEN "empty" ELSE "listing",
                                 !.apiItems = items]
     IN syncTasks' = [syncTasks EXCEPT ![t] =
          IF response.status # 200 THEN Caught([Task(t) EXCEPT !.remote = "failed"])
          ELSE IF parseHtmlResponseThrows(response.html)
               THEN Caught([Task(t) EXCEPT !.remote = "malformed"])
          ELSE IF Len(items) = 0
               THEN CASE got.kind = "passive" -> Finished(got, "empty")
                      [] got.kind = "force" -> [got EXCEPT !.pc = "cachedRead"]
                      [] OTHER -> Finished([got EXCEPT !.result = <<>>], "returned")
               ELSE IF got.kind = "fallback"
                    THEN [got EXCEPT !.pc = "save", !.toSave = items]
                    ELSE [got EXCEPT !.pc = "readLocal"]]
  /\ UNCHANGED <<storeVars, seed, cached_folders, asyncStorage, now, favVars, searchVars, playVars>>

\* Where a sync goes once the new items are known.
afterDiff(task, newItems) ==
  IF Len(newItems) > 0 THEN [task EXCEPT !.pc = "save", !.toSave = newItems]
  ELSE [task EXCEPT !.pc = "markSynced"]

\* await getLocalCachedItems(folderPath) and what follows it without suspension.
ReadLocalStep(t, ok) ==
  /\ Task(t).pc = "readLocal"
  /\ LET local == getLocalCachedItems(seed, cached_folders, Task(t).path) IN
     syncTasks' = [syncTasks EXCEPT ![t] =
       IF Task(t).kind = "fallback"
       THEN IF ~ok THEN Finished(Failing(Task(t)), "threw")
            ELSE IF Len(local) > 0 THEN Finished([Task(t) EXCEPT !.result = local], "returned")
            ELSE [Task(t) EXCEPT !.pc = "fetch"]
       ELSE IF ~ok THEN Caught(Task(t))
            ELSE afterDiff(Task(t), findNewItems(Task(t).apiItems, local))]
  /\ UNCHANGED <<storeVars, seed, cached_folders, asyncStorage, now, favVars, searchVars, playVars>>

\* What follows the last insert of saveCachedItems in each flow; cbOk = FALSE
\* is the onNewItems callback throwing.
afterSave(task, cbOk) ==
  CASE task.kind = "passive" ->
         IF cbOk THEN [task EXCEPT !.pc = "markSynced", !.notified = Some(WithIds(task.apiItems))]
         ELSE Finished(Failing([task EXCEPT !.notified = Some(WithIds(task.apiItems))]), "failed")
    [] task.kind = "force" -> [task EXCEPT !.pc = "markSynced"]
    [] OTHER -> Finished([task EXCEPT !.result = WithIds(task.apiItems)], "returned")

\* One INSERT OR IGNORE of the loop of saveCachedItems.
SaveStep(t, ok, cbOk) ==
  /\ Task(t).pc = "save"
  /\ IF ~ok
     THEN /\ syncTasks' = [syncTasks EXCEPT ![t] = Caught(Task(t))]
          /\ UNCHANGED cached_folders
     ELSE /\ cached_folders' = insertOrIgnore(cached_folders, Head(Task(t).toSave))
          /\ LET rest == [Task(t) EXCEPT !.toSave = Tail(Task(t).toSave)] IN
             syncTasks' = [syncTasks EXCEPT ![t] =
               IF Len(rest.toSave) > 0 THEN rest ELSE afterSave(rest, cbOk)]
  /\ UNCHANGED <<storeVars, seed, asyncStorage, now, favVars, searchVars, playVars>>

\* The flow is over once markSynced returned.
Synced(task) ==
  IF task.kind = "passive" THEN Finished(task, "synced")
  ELSE Finished([task EXCEPT !.result = WithIds(task.apiItems)], "returned")

\* A mutation of markSyncedWrite: the timestamp is not stored.
markSyncedSkip(storage, folderPath, date) == storage

\* markSynced: AsyncStorage.setItem(SYNC_PREFIX + folderPath, Date.now().toString())
markSyncedWrite(storage, folderPath, date) == setItem(storage, SyncKey(folderPath), toString(date))

MarkSyncedStep(t, ok) ==
  /\ Task(t).pc = "markSynced"
  /\ IF ok
     THEN /\ asyncStorage' = markSyncedWrite(asyncStorage, Task(t).path, now)
          /\ syncTasks' = [syncTasks EXCEPT ![t] =
               [Task(t) EXCEPT !.pc = "cleanupCheck", !.marked = Some(now)]]
     ELSE /\ syncTasks' = [syncTasks EXCEPT ![t] = Synced(Failing(Task(t)))]
          /\ UNCHANGED asyncStorage
  /\ UNCHANGED <<storeVars, seed, cached_folders, now, favVars, searchVars, playVars>>

\* cleanupOldSyncEntries: read CLEANUP_KEY, return when a cleanup ran recently.
CleanupCheckStep(t, ok) ==
  /\ Task(t).pc = "cleanupCheck"
  /\ LET lastCleanup == getItem(asyncStorage, CLEANUP_KEY)
         recent == lastCleanup # None /\ lastCleanup[1] # <<>>
                   /\ now - parseInt(lastCleanup[1]) < CLEANUP_INTERVAL_MS
     IN syncTasks' = [syncTasks EXCEPT ![t] =
          IF ~ok THEN Synced(Failing(Task(t)))
          ELSE IF recent THEN Synced(Task(t))
          ELSE [Task(t) EXCEPT !.pc = "cleanupKeys", !.nowc = now]]
  /\ UNCHANGED <<storeVars, seed, cached_folders, asyncStorage, now, favVars, searchVars, playVars>>

\* getAllKeys (in any order); under the cap only CLEANUP_KEY is written.
CleanupKeysStep(t, ok, keys) ==
  /\ Task(t).pc = "cleanupKeys"
  /\ {keys[i] : i \in 1..Len(keys)} = syncKeysOf(asyncStorage)
  /\ Len(keys) = Cardinality(syncKeysOf(asyncStorage))
  /\ IF ~ok
     THEN /\ syncTasks' = [syncTasks EXCEPT ![t] = Synced(Failing(Task(t)))]
          /\ UNCHANGED asyncStorage
     ELSE IF Len(keys) <= MAX_SYNC_ENTRIES
          THEN /\ asyncStorage' = setItem(asyncStorage, CLEANUP_KEY, toString(Task(t).nowc))
               /\ syncTasks' = [syncTasks EXCEPT ![t] = Synced(Task(t))]
          ELSE /\ syncTasks' = [syncTasks EXCEPT ![t] = [Task(t) EXCEPT !.pc = "cleanupGet", !.keys = keys]]
               /\ UNCHANGED asyncStorage
  /\ UNCHANGED <<storeVars, seed, cached_folders, now, favVars, searchVars, playVars>>

\* multiGet, sort, and the choice of the keys to remove.
CleanupGetStep(t, ok) ==
  /\ Task(t).pc = "cleanupGet"
  /\ syncTasks' = [syncTasks EXCEPT ![t] =
       IF ~ok THEN Synced(Failing(Task(t)))
       ELSE [Task(t) EXCEPT !.pc = "cleanupRemove", !.keys = keysToRemove(asyncStorage, Task(t).keys)]]
  /\ UNCHANGED <<storeVars, seed, cached_folders, asyncStorage, now, favVars, searchVars, playVars>>

\* multiRemove (when there is a key to remove), then setItem(CLEANUP_KEY);
\* okSet = FALSE is that last write failing.
CleanupRemoveStep(t, ok, okSet) ==
  /\ Task(t).pc = "cleanupRemove"
  /\ LET removed == IF Len(Task(t).keys) > 0 THEN multiRemove(asyncStorage, Task(t).keys) ELSE asyncStorage IN
     IF ~ok
     THEN /\ Len(Task(t).keys) > 0
          /\ UNCHANGED asyncStorage
          /\ syncTasks' = [syncTasks EXCEPT ![t] = Synced(Failing(Task(t)))]
     ELSE /\ asyncStorage' = IF okSet THEN setItem(removed, CLEANUP_KEY, toString(Task(t).nowc)) ELSE removed
          /\ syncTasks' = [syncTasks EXCEPT ![t] = Synced(IF okSet THEN Task(t) ELSE Failing(Task(t)))]
  /\ UNCHANGED <<storeVars, seed, cached_folders, now, favVars, searchVars, playVars>>

\* forceSyncFolder: return getLocalCachedItems(folderPath), from the empty-listing
\* branch or from the catch block; its failure is the failure of forceSyncFolder.
CachedReadStep(t, ok) ==
  /\ Task(t).pc = "cachedRead"
  /\ syncTasks' = [syncTasks EXCEPT ![t] =
       IF ok THEN Finished([Task(t) EXCEPT !.result = getLocalCachedItems(seed, cached_folders, Task(t).path)], "returned")
       ELSE Finished(Failing(Task(t)), "threw")]
  /\ UNCHANGED <<storeVars, seed, cached_folders, asyncStorage, now, favVars, searchVars, playVars>>

\* Time passes between two reads of the clock.
Advance(instant) ==
  /\ instant \in Instants
  /\ now < instant
  /\ instant <= MaxNow
  /\ now' = instant
  /\ UNCHANGED <<storeVars, favVars, syncVars, playVars, searchVars>>

(***************************************************************************)
(* Audio store (stores/audioStore). Positions and durations are in tenths  *)
(* of a second.                                                            *)
(***************************************************************************)
MAX_QUEUE_SIZE == 500

COMPLETION_THRESHOLD == 98

MaxPlayCalls == 2

\* The longest folder queue handed to setQueue.
MaxQueueLen == 1000

QueueItem(trackUrl, trackName, folderPath, folderName) ==
  [trackUrl |-> trackUrl, trackName |-> trackName, folderPath |-> folderPath, folderName |-> folderName]

Max(a, b) == IF a > b THEN a ELSE b

\* queue.slice(from, to) for 0 <= from <= to <= queue.length
slice(queue, from, to) == SubSeq(queue, from + 1, to)

\* limitedQueue[adjustedIndex] || null
itemAt(queue, index) == IF index >= 0 /\ index < Len(queue) THEN Some(queue[index + 1]) ELSE None

\* A mutation of setQueue: a long queue is cut at its end, not windowed.
setQueueTruncated(store, queue, startIndex) ==
  LET limitedQueue == IF Len(queue) > MAX_QUEUE_SIZE THEN slice(queue, 0, MAX_QUEUE_SIZE) ELSE queue
  IN [store EXCEPT !.queue = limitedQueue, !.currentIndex = startIndex,
                   !.currentTrack = itemAt(limitedQueue, startIndex)]

setQueue(store, queue, startIndex) ==
  LET halfWindow == MAX_QUEUE_SIZE \div 2
      windowStart0 == Max(0, startIndex - halfWindow)
      windowEnd0 == windowStart0 + MAX_QUEUE_SIZE
      windowEnd == IF windowEnd0 > Len(queue) THEN Len(queue) ELSE windowEnd0
      windowStart == IF windowEnd0 > Len(queue) THEN Max(0, windowEnd - MAX_QUEUE_SIZE) ELSE windowStart0
      limitedQueue == IF Len(queue) > MAX_QUEUE_SIZE THEN slice(queue, windowStart, windowEnd) ELSE queue
      adjustedIndex == IF Len(queue) > MAX_QUEUE_SIZE THEN startIndex - windowStart ELSE startIndex
  IN [store EXCEPT !.queue = limitedQueue, !.currentIndex = adjustedIndex,
                   !.currentTrack = itemAt(limitedQueue, adjustedIndex)]

\* The store after nextTrack(); the call returns its currentTrack, or null
\* when the store is left as it was.
\* A mutation of nextTrack: past the end it wraps around to the first item.
nextTrackWraps(store) ==
  IF Len(store.queue) = 0 THEN store
  ELSE LET nextIndex == (store.currentIndex + 1) % Len(store.queue)
       IN [store EXCEPT !.currentIndex = nextIndex, !.currentTrack = Some(store.queue[nextIndex + 1])]

nextTrack(store) ==
  IF store.currentIndex + 1 < Len(store.queue)
  THEN [store EXCEPT !.currentIndex = store.currentIndex + 1,
                     !.currentTrack = Some(store.queue[store.currentIndex + 2])]
  ELSE store

hasNext(store) == store.currentIndex + 1 < Len(store.queue)

previousTrack(store) ==
  IF store.currentIndex - 1 >= 0
  THEN [store EXCEPT !.currentIndex = store.currentIndex - 1,
                     !.currentTrack = Some(store.queue[store.currentIndex])]
  ELSE store

hasPrevious(store) == store.currentIndex - 1 >= 0

clearQueue(store) ==
  [store EXCEPT !.queue = <<>>, !.currentIndex = -1, !.currentTrack = None,
                !.playbackStatus = "idle", !.position = 0, !.duration = 0]

\* setError(message): the status turns to error unless the message is empty
setError(store, message) ==
  [store EXCEPT !.error = Some(message), !.playbackStatus = IF message # "" THEN "error" ELSE @]

\* A mutation of buildQueueFromFolder: the filter on itemType is left out.
RECURSIVE buildQueueUnfiltered(_, _, _)
buildQueueUnfiltered(items, folderPath, folderName) ==
  IF items = <<>> THEN <<>>
  ELSE <<QueueItem(Head(items).itemPath, Head(items).itemName, folderPath, folderName)>>
       \o buildQueueUnfiltered(Tail(items), folderPath, folderName)

\* items.filter((item) => item.itemType === 'audio').map(...)
RECURSIVE buildQueueFromFolder(_, _, _)
buildQueueFromFolder(items, folderPath, folderName) ==
  IF items = <<>> THEN <<>>
  ELSE (IF Head(items).itemType = "audio"
        THEN <<QueueItem(Head(items).itemPath, Head(items).itemName, folderPath, folderName)>>
        ELSE <<>>) \o buildQueueFromFolder(Tail(items), folderPath, folderName)

(***************************************************************************)
(* Playback session (services/audioPlayer). An engine handle is a record   *)
(* of engines; player and statusSubscription hold the index of one. Each   *)
(* await whose promise is settled by the store or by the engine is a step. *)
(***************************************************************************)
\* The duration the engine reports for every track of the model (100 s).
TrackDuration == 1000

\* The positions at which the engine is observed.
Positions == {20, 980, 1000}

NoCall ==
  [op |-> "none", pc |-> "idle", track |-> None, resumeAt |-> 0, failed |-> FALSE,
   flushed |-> None]

\* The record of a call that returned (failed: it threw, or its catch block ran).
Returned(op, failed) == [NoCall EXCEPT !.op = op, !.pc = "done", !.failed = failed]

PlayCallIds == 1..MaxPlayCalls

Call(c) == playCalls[c]

\* A mutation of isCompletedAt: the threshold itself does not count.
isCompletedAbove(position, duration) ==
  duration > 0 /\ position * 100 > COMPLETION_THRESHOLD * duration

\* progress >= COMPLETION_THRESHOLD, with progress = duration > 0 ? position / duration : 0
isCompletedAt(position, duration) ==
  duration > 0 /\ position * 100 >= COMPLETION_THRESHOLD * duration

\* createAudioPlayer({uri}): a handle that is neither loaded nor playing.
createAudioPlayer(uri, trackUrl) ==
  [uri |-> uri, trackUrl |-> trackUrl, isLoaded |-> FALSE, playing |-> FALSE,
   currentTime |-> 0, duration |-> 0, listening |-> FALSE, removed |-> FALSE]

\* unloadTrack: the condition under which the final position is saved.
savesFinalPosition(store) ==
  player # None /\ store.currentTrack # None /\ engines[player[1]].currentTime > 0

\* unloadTrack: statusSubscription.remove(), then player.pause() and player.remove().
tearDown(engs, subscription, handle) ==
  LET unsubscribed == IF subscription = None THEN engs
                      ELSE [engs EXCEPT ![subscription[1]].listening = FALSE]
  IN IF handle = None THEN unsubscribed
     ELSE [unsubscribed EXCEPT ![handle[1]].playing = FALSE, ![handle[1]].removed = TRUE]

\* playTrack between unloadTrack and getTrack: the store turns to the new track.
loading(store, track) ==
  [store EXCEPT !.currentTrack = Some(track), !.error = None, !.playbackStatus = "loading",
                !.position = 0, !.duration = 0]

\* The catch block of playTrack: setError(error.message) of the Error caught,
\* then setPlaybackStatus('error').
PlayFailed(c, call, message) ==
  /\ audioStore' = [setError(audioStore, message) EXCEPT !.playbackStatus = "error"]
  /\ playCalls' = [playCalls EXCEPT ![c] = Returned(call.op, TRUE)]

\* unloadTrack up to its await (or to its end when nothing is saved), called
\* by op with the store in state store; ok = FALSE is updateTrackPosition failing.
\* For playTrack the step runs on to the await of getTrack when nothing is saved.
BeginUnload(c, op, track, store, ok) ==
  /\ positionUpdateInterval' = None
  /\ IF savesFinalPosition(store)
     THEN LET handle == engines[player[1]]
              write == [trackUrl |-> store.currentTrack[1].trackUrl,
                        position |-> handle.currentTime,
                        isCompleted |-> isCompletedAt(handle.currentTime, handle.duration)]
          IN /\ tracks' = IF ok THEN updateTrackPosition(tracks, write.trackUrl, write.position, write.isCompleted, now)
                          ELSE tracks
             /\ playCalls' = [playCalls EXCEPT ![c] =
                  [NoCall EXCEPT !.op = op, !.pc = "flush", !.track = track, !.failed = ~ok,
                                 !.flushed = IF ok THEN Some(write) ELSE None]]
             /\ audioStore' = store
             /\ UNCHANGED <<player, statusSubscription, engines>>
     ELSE /\ engines' = tearDown(engines, statusSubscription, player)
          /\ player' = None
          /\ statusSubscription' = None
          /\ audioStore' = IF op = "stop" THEN clearQueue(store) ELSE loading(store, track[1])
          /\ playCalls' = [playCalls EXCEPT ![c] =
               IF op = "stop" THEN Returned(op, FALSE)
               ELSE [NoCall EXCEPT !.op = op, !.pc = "getTrack", !.track = track]]
          /\ UNCHANGED tracks

\* The lowest free slot for a call.
FreeSlot(c) == Call(c).pc = "idle" /\ \A d \in 1..(c - 1) : Call(d).pc # "idle"

\* play(track) of useAudioPlayer: playTrack(track)
Play(c, track, ok) ==
  /\ FreeSlot(c)
  /\ BeginUnload(c, "playTrack", Some(track), audioStore, ok)
  /\ UNCHANGED <<dbCalls, now, favVars, searchVars, syncVars, autoplay>>

\* playFromFolder / handleAudioPress: setQueue(queue, startIndex), then playTrack
PlayFromFolder(c, queue, startIndex, ok) ==
  /\ FreeSlot(c)
  /\ Len(queue) > 0
  /\ startIndex \in 0..(Len(queue) - 1)
  /\ BeginUnload(c, "playTrack", Some(queue[startIndex + 1]), setQueue(audioStore, queue, startIndex), ok)
  /\ UNCHANGED <<dbCalls, now, favVars, searchVars, syncVars, autoplay>>

\* playNext: nextTrack(), then playTrack of the track it returned
PlayNext(c, ok) ==
  /\ FreeSlot(c)
  /\ hasNext(audioStore)
  /\ BeginUnload(c, "playTrack", nextTrack(audioStore).currentTrack, nextTrack(audioStore), ok)
  /\ UNCHANGED <<dbCalls, now, favVars, searchVars, syncVars, autoplay>>

\* seekTo(position): player.seekTo, then setPosition
SeekTo(position) ==
  /\ player # None
  /\ engines' = [engines EXCEPT ![player[1]].currentTime = position]
  /\ audioStore' = [audioStore EXCEPT !.position = position]
  /\ UNCHANGED <<storeVars, now, favVars, searchVars, syncVars, autoplay, player, statusSubscription, positionUpdateInterval, playCalls>>

\* togglePlayPause: pause() when the status is playing, resume() when it is
\* paused, nothing otherwise; pause and resume do nothing without a handle.
togglePlayPauseBranch(store, handle) ==
  IF handle = None THEN "return"
  ELSE IF store.playbackStatus = "playing" THEN "pause"
  ELSE IF store.playbackStatus = "paused" THEN "resume"
  ELSE "return"

\* togglePlayPause: player.pause() or player.play(), then setPlaybackStatus
TogglePlayPause ==
  /\ togglePlayPauseBranch(audioStore, player) # "return"
  /\ engines' = [engines EXCEPT ![player[1]].playing = (togglePlayPauseBranch(audioStore, player) = "resume")]
  /\ audioStore' = [audioStore EXCEPT !.playbackStatus =
                      IF togglePlayPauseBranch(audioStore, player) = "pause" THEN "paused" ELSE "playing"]
  /\ UNCHANGED <<storeVars, now, favVars, searchVars, syncVars, autoplay, player, statusSubscription, positionUpdateInterval, playCalls>>

\* A mutation of playPreviousBranch: the position of the handle is not looked at.
playPreviousAlwaysBack(store, handle) ==
  IF handle = None THEN "return"
  ELSE IF hasPrevious(store) THEN "previous" ELSE "restart"

\* playPrevious: the way it takes. Without a handle it returns at once; more
\* than 3 s in, or at the head of the queue, it restarts the track.
playPreviousBranch(store, handle) ==
  IF handle = None THEN "return"
  ELSE IF engines[handle[1]].currentTime > 30 THEN "restart"
  ELSE IF hasPrevious(store) THEN "previous" ELSE "restart"

\* playPrevious: seekTo(0), or previousTrack() and playTrack
PlayPrevious(c, ok) ==
  /\ FreeSlot(c)
  /\ playPreviousBranch(audioStore, player) # "return"
  /\ IF playPreviousBranch(audioStore, player) = "restart"
     THEN SeekTo(0)
     ELSE /\ BeginUnload(c, "playTrack", previousTrack(audioStore).currentTrack, previousTrack(audioStore), ok)
          /\ UNCHANGED <<dbCalls, now, favVars, searchVars, syncVars, autoplay>>

\* stop: unloadTrack, then clearQueue
Stop(c, ok) ==
  /\ FreeSlot(c)
  /\ BeginUnload(c, "stop", None, audioStore, ok)
  /\ UNCHANGED <<dbCalls, now, favVars, searchVars, syncVars, autoplay>>

\* unloadTrack after its await of updateTrackPosition, and what its caller
\* does next: a failed save leaves unloadTrack before the teardown.
UnloadFlushed(c) ==
  /\ Call(c).pc = "flush"
  /\ IF Call(c).failed
     THEN /\ IF Call(c).op = "stop"
             THEN /\ playCalls' = [playCalls EXCEPT ![c] = Returned("stop", TRUE)]
                  /\ UNCHANGED audioStore
             ELSE PlayFailed(c, Call(c), "database error")
          /\ UNCHANGED <<player, statusSubscription, engines>>
     ELSE /\ engines' = tearDown(engines, statusSubscription, player)
          /\ player' = None
          /\ statusSubscription' = None
          /\ audioStore' = IF Call(c).op = "stop" THEN clearQueue(audioStore)
                           ELSE loading(audioStore, Call(c).track[1])
          /\ playCalls' = [playCalls EXCEPT ![c] =
               IF Call(c).op = "stop" THEN Returned("stop", FALSE)
               ELSE [Call(c) EXCEPT !.pc = "getTrack", !.flushed = None]]
  /\ UNCHANGED <<storeVars, now, favVars, searchVars, syncVars, autoplay, positionUpdateInterval>>

\* A mutation of sourceUri: the remote URL whatever the record says.
sourceUriRemote(savedTrack, track) == track.trackUrl

\* The uri playTrack hands to createAudioPlayer: the local file of a downloaded
\* track, otherwise the track's URL.
sourceUri(savedTrack, track) ==
  IF savedTrack # None /\ savedTrack[1].isDownloaded /\ savedTrack[1].localFilePath # None
  THEN savedTrack[1].localFilePath[1]
  ELSE track.trackUrl

\* playTrack after its await of getTrack: choose the source, create the engine
\* handle, subscribe, and start to wait for the load.
GetTrackStep(c, ok) ==
  /\ Call(c).pc = "getTrack"
  /\ IF ~ok
     THEN /\ PlayFailed(c, Call(c), "database error")
          /\ UNCHANGED <<player, statusSubscription, engines>>
     ELSE LET track == Call(c).track[1]
              savedTrack == getTrack(tracks, track.trackUrl)
              uri == sourceUri(savedTrack, track)
              resumes == savedTrack # None /\ Num(savedTrack[1].currentPlaybackTime) > 0
                         /\ ~savedTrack[1].isCompleted
              handle == Len(engines) + 1
          IN /\ engines' = Append(engines, [createAudioPlayer(uri, track.trackUrl) EXCEPT !.listening = TRUE])
             /\ player' = Some(handle)
             /\ statusSubscription' = Some(handle)
             /\ playCalls' = [playCalls EXCEPT ![c] =
                  [Call(c) EXCEPT !.pc = "waitForLoad",
                                  !.resumeAt = IF resumes THEN savedTrack[1].currentPlaybackTime[1] ELSE 0]]
             /\ UNCHANGED audioStore
  /\ UNCHANGED <<storeVars, now, favVars, searchVars, syncVars, autoplay, positionUpdateInterval>>

\* player.play() and the upsert that follows it; ok = FALSE is upsertTrack failing.
PlayAndUpsert(c, ok) ==
  /\ engines' = [engines EXCEPT ![player[1]].playing = TRUE]
  /\ tracks' = IF ok THEN upsertTrack(tracks, TrackPartial(Call(c).track[1].trackUrl, Call(c).track[1].trackName))
               ELSE tracks
  /\ playCalls' = [playCalls EXCEPT ![c] = [Call(c) EXCEPT !.pc = "upsertTrack", !.failed = ~ok]]
  /\ UNCHANGED audioStore

\* waitForLoad settles: the module's player is gone, or it reports isLoaded;
\* then the saved position is restored, or playback starts.
WaitForLoadStep(c, ok) ==
  /\ Call(c).pc = "waitForLoad"
  /\ IF player = None
     THEN /\ PlayFailed(c, Call(c), "Player removed")
          /\ UNCHANGED <<tracks, engines>>
     ELSE /\ engines[player[1]].isLoaded
          /\ IF Call(c).resumeAt > 0
             THEN /\ engines' = [engines EXCEPT ![player[1]].currentTime = Call(c).resumeAt]
                  /\ playCalls' = [playCalls EXCEPT ![c] = [Call(c) EXCEPT !.pc = "seekTo"]]
                  /\ UNCHANGED <<tracks, audioStore>>
             ELSE PlayAndUpsert(c, ok)
  /\ UNCHANGED <<dbCalls, now, favVars, searchVars, syncVars, autoplay, player, statusSubscription, positionUpdateInterval>>

\* A mutation of WaitForLoadTimeout: waitForLoad without its 30 s timer.
WaitForLoadUntimed(c) ==
  /\ FALSE
  /\ UNCHANGED vars

\* The 30 s timer of waitForLoad fires before the player reports isLoaded.
WaitForLoadTimeout(c) ==
  /\ Call(c).pc = "waitForLoad"
  /\ player # None
  /\ ~engines[player[1]].isLoaded
  /\ PlayFailed(c, Call(c), "Load timeout")
  /\ UNCHANGED <<storeVars, now, favVars, searchVars, syncVars, autoplay, player, statusSubscription, positionUpdateInterval, engines>>

\* playTrack after its await of player.seekTo
SeekToStep(c, ok) ==
  /\ Call(c).pc = "seekTo"
  /\ IF player = None
     THEN /\ PlayFailed(c, Call(c), "Cannot read property 'play' of null")
          /\ UNCHANGED <<tracks, engines>>
     ELSE PlayAndUpsert(c, ok)
  /\ UNCHANGED <<dbCalls, now, favVars, searchVars, syncVars, autoplay, player, statusSubscription, positionUpdateInterval>>

\* playTrack after its await of upsertTrack: startPositionSaving
UpsertTrackStep(c) ==
  /\ Call(c).pc = "upsertTrack"
  /\ IF Call(c).failed
     THEN /\ PlayFailed(c, Call(c), "database error")
          /\ UNCHANGED positionUpdateInterval
     ELSE /\ positionUpdateInterval' = Some(c)
          /\ playCalls' = [playCalls EXCEPT ![c] = Returned(Call(c).op, FALSE)]
          /\ UNCHANGED audioStore
  /\ UNCHANGED <<storeVars, now, favVars, searchVars, syncVars, autoplay, player, statusSubscription, engines>>

\* The engine finished loading a handle.
EngineLoaded(e) ==
  /\ e \in 1..Len(engines)
  /\ ~engines[e].removed
  /\ ~engines[e].isLoaded
  /\ engines' = [engines EXCEPT ![e].isLoaded = TRUE, ![e].duration = TrackDuration]
  /\ UNCHANGED <<storeVars, now, favVars, searchVars, syncVars, audioStore, autoplay, player, statusSubscription, positionUpdateInterval, playCalls>>

\* A playing handle moves on; at the end of the track it stops playing.
EngineProgress(e, position) ==
  /\ e \in 1..Len(engines)
  /\ ~engines[e].removed
  /\ engines[e].playing
  /\ position \in Positions
  /\ position > engines[e].currentTime
  /\ position <= engines[e].duration
  /\ engines' = [engines EXCEPT ![e].currentTime = position,
                                ![e].playing = position < engines[e].duration]
  /\ UNCHANGED <<storeVars, now, favVars, searchVars, syncVars, audioStore, autoplay, player, statusSubscription, positionUpdateInterval, playCalls>>

\* The sentence of onPlaybackStatusUpdate that sets the status; a handle that
\* is not loaded yet may or may not report isBuffering.
statusOf(store, handle, isBuffering) ==
  IF handle.playing THEN "playing"
  ELSE IF isBuffering THEN "loading"
  ELSE "paused"

\* The track ended: duration > 0, currentTime >= duration - 0.5, not playing.
trackEnded(handle) ==
  handle.duration > 0 /\ handle.currentTime >= handle.duration - 5 /\ ~handle.playing

\* handleTrackCompletion up to its await (or to its end): mark the current
\* track completed, then advance when autoplay is on.
CompletionNext(c, store, ok) ==
  IF autoplay /\ hasNext(store)
  THEN BeginUnload(c, "playTrack", nextTrack(store).currentTrack, nextTrack(store), ok)
  ELSE /\ audioStore' = [store EXCEPT !.playbackStatus = "paused"]
       /\ playCalls' = [playCalls EXCEPT ![c] = Returned("handleTrackCompletion", FALSE)]
       /\ UNCHANGED <<tracks, player, statusSubscription, positionUpdateInterval, engines>>

\* A playbackStatusUpdate event reaches onPlaybackStatusUpdate.
OnPlaybackStatusUpdate(c, isBuffering, ok) ==
  /\ \E e \in 1..Len(engines) : engines[e].listening /\ ~engines[e].removed
  /\ player # None
  /\ LET handle == engines[player[1]]
         store == [audioStore EXCEPT
                     !.duration = IF handle.duration > 0 THEN handle.duration ELSE audioStore.duration,
                     !.position = handle.currentTime,
                     !.playbackStatus = statusOf(audioStore, handle, isBuffering /\ ~handle.isLoaded)]
     IN IF trackEnded(handle)
        THEN /\ FreeSlot(c)
             /\ IF store.currentTrack # None
                THEN /\ tracks' = IF ok THEN updateTrackPosition(tracks, store.currentTrack[1].trackUrl, 0, TRUE, now)
                                  ELSE tracks
                     /\ playCalls' = [playCalls EXCEPT ![c] =
                          [NoCall EXCEPT !.op = "handleTrackCompletion", !.pc = "updateTrackPosition",
                                         !.track = store.currentTrack, !.failed = ~ok]]
                     /\ audioStore' = store
                     /\ UNCHANGED <<player, statusSubscription, positionUpdateInterval, engines>>
                ELSE CompletionNext(c, store, ok)
        ELSE /\ audioStore' = store
             /\ audioStore' # audioStore
             /\ UNCHANGED <<tracks, player, statusSubscription, positionUpdateInterval, engines, playCalls>>
  /\ UNCHANGED <<dbCalls, now, favVars, searchVars, syncVars, autoplay>>

\* handleTrackCompletion after its await of updateTrackPosition; its failure
\* ends handleTrackCompletion.
CompletionStep(c, ok) ==
  /\ Call(c).pc = "updateTrackPosition"
  /\ IF Call(c).failed
     THEN /\ playCalls' = [playCalls EXCEPT ![c] = Returned("handleTrackCompletion", TRUE)]
          /\ UNCHANGED <<tracks, audioStore, player, statusSubscription, positionUpdateInterval, engines>>
     ELSE CompletionNext(c, audioStore, ok)
  /\ UNCHANGED <<dbCalls, now, favVars, searchVars, syncVars, autoplay>>

\* The 5 s timer of startPositionSaving fires.
PositionSaveTick(ok) ==
  /\ positionUpdateInterval # None
  /\ player # None
  /\ audioStore.currentTrack # None
  /\ audioStore.playbackStatus = "playing"
  /\ engines[player[1]].currentTime > 0
  /\ ok
  /\ tracks' = updateTrackPosition(tracks, audioStore.currentTrack[1].trackUrl, engines[player[1]].currentTime,
                                   isCompletedAt(engines[player[1]].currentTime, engines[player[1]].duration), now)
  /\ UNCHANGED <<dbCalls, now, favVars, searchVars, syncVars, playVars>>

(***************************************************************************)
(* Search on the browse screen (app/(tabs)/browse/index.tsx). Names and    *)
(* queries are sequences of characters.                                    *)
(***************************************************************************)
MaxSearchCalls == 2

\* The characters of the model in their binary (ASCII) order.
CharCode(ch) ==
  CASE ch = " " -> 32 [] ch = "K" -> 75 [] ch = "a" -> 97 [] ch = "g" -> 103 [] ch = "h" -> 104
    [] ch = "i" -> 105 [] ch = "k" -> 107 [] ch = "n" -> 110 [] ch = "r" -> 114 [] ch = "t" -> 116

\* LIKE folds the case of ASCII letters.
Lower(ch) == IF ch = "K" THEN "k" ELSE ch

\* ZITEMNAME LIKE '%query%'
Like(name, query) ==
  \E k \in 0..(Len(name) - Len(query)) :
     \A j \in 1..Len(query) : Lower(name[k + j]) = Lower(query[j])

\* ORDER BY ZITEMNAME ASC under the binary collation
RECURSIVE NameLess(_, _)
NameLess(a, b) ==
  IF b = <<>> THEN FALSE
  ELSE IF a = <<>> THEN TRUE
  ELSE IF CharCode(Head(a)) # CharCode(Head(b)) THEN CharCode(Head(a)) < CharCode(Head(b))
  ELSE NameLess(Tail(a), Tail(b))

RECURSIVE OrderByName(_)
OrderByName(S) ==
  IF S = {} THEN <<>>
  ELSE LET first == CHOOSE a \in S : \A b \in S \ {a} :
                      NameLess(a.itemName, b.itemName) \/ (a.itemName = b.itemName /\ a.id < b.id)
       IN <<first>> \o OrderByName(S \ {first})

\* searchCachedItems: the rows of the bundled snapshot whose name holds the
\* query, by name, at most 100
searchCachedItems(seedRows, query) ==
  LET found == OrderByName({ [id |-> seedRows[i].Z_PK,
                              parentPath |-> seedRows[i].ZPARENTPATH,
                              itemName |-> seedRows[i].ZITEMNAME,
                              itemPath |-> seedRows[i].ZITEMPATH,
                              itemType |-> seedRows[i].ZITEMTYPE,
                              sortOrder |-> seedRows[i].ZSORTORDER,
                              lastUpdated |-> seedRows[i].ZLASTUPDATED * 1000]
                            : i \in {j \in 1..Len(seedRows) : Like(seedRows[j].ZITEMNAME, query)} })
  IN SubSeq(found, 1, IF Len(found) > 100 THEN 100 ELSE Len(found))

\* query.trim()
RECURSIVE trim(_)
trim(query) ==
  IF query = <<>> THEN <<>>
  ELSE IF Head(query) = " " THEN trim(Tail(query))
  ELSE IF Last(query) = " " THEN trim(Front(query))
  ELSE query

NoSearchCall == [query |-> <<>>, pc |-> "idle"]

\* A mutation of stillLatest: every result list is applied.
alwaysLatest(query, latest) == TRUE

\* query === latestQueryRef.current
stillLatest(query, latest) == query = latest

\* handleSearch(query): onChangeText of the search box, or its clear button
HandleSearch(query) ==
  /\ query # searchQuery
  /\ searchQuery' = query
  /\ latestQueryRef' = query
  /\ IF Len(trim(query)) < 2
     THEN /\ searchResults' = <<>>
          /\ isSearching' = FALSE
          /\ searchTimeoutRef' = None
     ELSE /\ isSearching' = TRUE
          /\ searchTimeoutRef' = Some(query)
          /\ UNCHANGED searchResults
  /\ UNCHANGED <<storeVars, now, favVars, syncVars, playVars, searches>>

\* The debounce timer fires: performSearch(query) up to its await of
\* searchCachedItems.
DebounceFires(c) ==
  /\ searchTimeoutRef # None
  /\ searches[c].pc = "idle" /\ \A d \in 1..(c - 1) : searches[d].pc # "idle"
  /\ searchTimeoutRef' = None
  /\ IF stillLatest(searchTimeoutRef[1], latestQueryRef)
     THEN /\ isSearching' = TRUE
          /\ searches' = [searches EXCEPT ![c] = [query |-> searchTimeoutRef[1], pc |-> "lookup"]]
     ELSE UNCHANGED <<isSearching, searches>>
  /\ UNCHANGED <<storeVars, now, favVars, syncVars, playVars, searchQuery, searchResults, latestQueryRef>>

\* performSearch after its await: the results are applied when the query is
\* still the latest one; ok = FALSE is searchCachedItems failing.
LookupSettles(c, ok) ==
  /\ searches[c].pc = "lookup"
  /\ searches' = [searches EXCEPT ![c].pc = "done"]
  /\ searchResults' = IF ok /\ stillLatest(searches[c].query, latestQueryRef)
                      THEN searchCachedItems(seed, searches[c].query)
                      ELSE searchResults
  /\ isSearching' = IF stillLatest(searches[c].query, latestQueryRef) THEN FALSE ELSE isSearching
  /\ UNCHANGED <<storeVars, now, favVars, syncVars, playVars, searchQuery, searchTimeoutRef, latestQueryRef>>

\* handleResultPress: a displayed result is pressed
HandleResultPress ==
  /\ Len(searchQuery) >= 2
  /\ Len(searchResults) > 0
  /\ searchQuery' = <<>>
  /\ searchResults' = <<>>
  /\ UNCHANGED <<storeVars, now, favVars, syncVars, playVars, isSearching, searchTimeoutRef, latestQueryRef, searches>>

NoSearch ==
  /\ searchQuery = <<>>
  /\ searchResults = <<>>
  /\ isSearching = FALSE
  /\ searchTimeoutRef = None
  /\ latestQueryRef = <<>>
  /\ searches = [c \in 1..MaxSearchCalls |-> NoSearchCall]

(***************************************************************************)
(* Specifications.                                                         *)
(***************************************************************************)
NoPlayback ==
  /\ playCalls = [c \in PlayCallIds |-> NoCall]
  /\ audioStore = [currentTrack |-> None, playbackStatus |-> "idle", duration |-> 0,
                   position |-> 0, error |-> None, queue |-> <<>>, currentIndex |-> -1]
  /\ autoplay = TRUE
  /\ player = None
  /\ statusSubscription = None
  /\ positionUpdateInterval = None
  /\ engines = <<>>

NoSync ==
  /\ seed = <<>>
  /\ cached_folders = <<>>
  /\ asyncStorage = <<>>
  /\ syncTasks = [t \in SyncTaskIds |-> NoTask]

NoFavorites ==
  /\ favorites = <<>>
  /\ ZFAVORITEFOLDERRECORD = <<>>

NoStore ==
  /\ tracks = <<>>
  /\ dbCalls = [c \in 1..MaxDbCalls |-> IdleCall]

\* The tracks table under its callers.
StoreInit == NoStore /\ NoSync /\ NoPlayback /\ now = 0 /\ NoFavorites /\ NoSearch

StoreNext ==
  \/ \E url \in TrackUrls : \E track \in StorePartials(url) : UpsertTrackCall(track)
  \/ \E url \in TrackUrls, position \in {40, 980}, isCompleted \in BOOLEAN :
       UpdateTrackPositionCall(url, position, isCompleted)
  \/ \E c \in 1..MaxDbCalls, url \in TrackUrls, isCompleted \in BOOLEAN :
       MarkTrackCompletedUpsert(c, url, isCompleted)
  \/ \E c \in 1..MaxDbCalls : MarkTrackCompletedUpdate(c)
  \/ \E c \in 1..MaxDbCalls, url \in TrackUrls : DownloadTrackUpsert(c, url, 5)
  \/ \E c \in 1..MaxDbCalls : DownloadTrackMark(c)
  \/ \E url \in TrackUrls : DeleteDownloadCall(url)

StoreSpec == StoreInit /\ [][StoreNext]_vars

\* The folder queue of /A: the audio entries of its listing, in listing order.
QueueA == buildQueueFromFolder(WithIds(parseHtmlResponse(PageA2, FolderA, 0)), FolderA, "A")

\* A record of a track heard before, 2 s in.
HeardA1 ==
  [u \in {TrackA1} |->
     [upsertValues(TrackPartial(TrackA1, "t1")) EXCEPT !.current_playback_time = Some(20)]]

\* A record of a track downloaded before and never played: the row that
\* downloadTrack leaves.
DownloadedA2 ==
  [u \in {TrackA2} |->
     [upsertValues(TrackPartial(TrackA2, "t2")) EXCEPT
        !.is_downloaded = Some(1), !.local_file_path = Some(getLocalFilePath(TrackA2)),
        !.track_size_bytes = Some(5), !.download_date = Some(0)]]

\* The playback session under its callers, the engine and the timers.
PlayInit ==
  /\ NoSync /\ now = 0 /\ NoFavorites /\ NoSearch
  /\ dbCalls = [c \in 1..MaxDbCalls |-> IdleCall]
  /\ tracks = HeardA1 @@ DownloadedA2
  /\ audioStore = [currentTrack |-> None, playbackStatus |-> "idle", duration |-> 0,
                   position |-> 0, error |-> None, queue |-> <<>>, currentIndex |-> -1]
  /\ autoplay \in BOOLEAN
  /\ player = None
  /\ statusSubscription = None
  /\ positionUpdateInterval = None
  /\ engines = <<>>
  /\ playCalls = [c \in PlayCallIds |-> NoCall]

PlayStep ==
  \/ \E c \in PlayCallIds, ok \in BOOLEAN : \E track \in {QueueA[i] : i \in 1..Len(QueueA)} : Play(c, track, ok)
  \/ \E c \in PlayCallIds, startIndex \in 0..(Len(QueueA) - 1), ok \in BOOLEAN : PlayFromFolder(c, QueueA, startIndex, ok)
  \/ \E c \in PlayCallIds, ok \in BOOLEAN : PlayNext(c, ok)
  \/ \E c \in PlayCallIds, ok \in BOOLEAN : PlayPrevious(c, ok)
  \/ \E c \in PlayCallIds, ok \in BOOLEAN : Stop(c, ok)
  \/ \E c \in PlayCallIds : UnloadFlushed(c)
  \/ \E c \in PlayCallIds, ok \in BOOLEAN : GetTrackStep(c, ok)
  \/ \E c \in PlayCallIds, ok \in BOOLEAN : WaitForLoadStep(c, ok)
  \/ \E c \in PlayCallIds : WaitForLoadTimeout(c)
  \/ \E c \in PlayCallIds, ok \in BOOLEAN : SeekToStep(c, ok)
  \/ \E c \in PlayCallIds : UpsertTrackStep(c)
  \/ \E e \in 1..Len(engines) : EngineLoaded(e)
  \/ \E e \in 1..Len(engines), position \in Positions : EngineProgress(e, position)
  \/ \E c \in PlayCallIds, isBuffering \in BOOLEAN, ok \in BOOLEAN : OnPlaybackStatusUpdate(c, isBuffering, ok)
  \/ \E c \in PlayCallIds, ok \in BOOLEAN : CompletionStep(c, ok)
  \/ \E ok \in BOOLEAN : PositionSaveTick(ok)

PlaySpec == PlayInit /\ [][PlayStep]_vars

\* The session while the first track of the folder queue of /A plays: the
\* state playFromFolder(QueueA, 0) leaves once playTrack has returned and the
\* first status update has arrived, the track resumed 2 s in.
ListenInit ==
  /\ NoSync /\ now = 0 /\ NoFavorites /\ NoSearch
  /\ dbCalls = [c \in 1..MaxDbCalls |-> IdleCall]
  /\ tracks = upsertTrack(HeardA1 @@ DownloadedA2, TrackPartial(TrackA1, "t1"))
  /\ audioStore = [currentTrack |-> Some(QueueA[1]), playbackStatus |-> "playing",
                   duration |-> TrackDuration, position |-> 20, error |-> None,
                   queue |-> QueueA, currentIndex |-> 0]
  /\ autoplay \in BOOLEAN
  /\ player = Some(1)
  /\ statusSubscription = Some(1)
  /\ positionUpdateInterval = Some(1)
  /\ engines = <<[createAudioPlayer(TrackA1, TrackA1) EXCEPT
                    !.listening = TRUE, !.isLoaded = TRUE, !.duration = TrackDuration,
                    !.currentTime = 20, !.playing = TRUE]>>
  /\ playCalls = [c \in PlayCallIds |-> NoCall]

\* No call of the session is between two of its steps.
Quiescent == \A d \in PlayCallIds : Call(d).pc \in {"idle", "done"}

\* The steps of PlayStep, the user issuing an operation once the calls before
\* it have returned; the engine and the timers run freely.
ListenNext ==
  \/ \E c \in PlayCallIds, ok \in BOOLEAN : \E track \in {QueueA[i] : i \in 1..Len(QueueA)} : Quiescent /\ Play(c, track, ok)
  \/ \E c \in PlayCallIds, startIndex \in 0..(Len(QueueA) - 1), ok \in BOOLEAN : Quiescent /\ PlayFromFolder(c, QueueA, startIndex, ok)
  \/ \E c \in PlayCallIds, ok \in BOOLEAN : Quiescent /\ PlayNext(c, ok)
  \/ \E c \in PlayCallIds, ok \in BOOLEAN : Quiescent /\ PlayPrevious(c, ok)
  \/ \E c \in PlayCallIds, ok \in BOOLEAN : Quiescent /\ Stop(c, ok)
  \/ \E c \in PlayCallIds : UnloadFlushed(c)
  \/ \E c \in PlayCallIds, ok \in BOOLEAN : GetTrackStep(c, ok)
  \/ \E c \in PlayCallIds, ok \in BOOLEAN : WaitForLoadStep(c, ok)
  \/ \E c \in PlayCallIds : WaitForLoadTimeout(c)
  \/ \E c \in PlayCallIds, ok \in BOOLEAN : SeekToStep(c, ok)
  \/ \E c \in PlayCallIds : UpsertTrackStep(c)
  \/ \E e \in 1..Len(engines) : EngineLoaded(e)
  \/ \E e \in 1..Len(engines) : \E position \in Positions : EngineProgress(e, position)
  \/ \E c \in PlayCallIds, isBuffering \in BOOLEAN, ok \in BOOLEAN : OnPlaybackStatusUpdate(c, isBuffering, ok)
  \/ \E c \in PlayCallIds, ok \in BOOLEAN : CompletionStep(c, ok)
  \/ \E ok \in BOOLEAN : PositionSaveTick(ok)

ListenSpec == ListenInit /\ [][ListenNext]_vars

\* A folder queue of n tracks; the last segment of a track's URL is its
\* index in the folder.
LongQueue(n) == [i \in 1..n |-> QueueItem(<<AUDIO_BASE_URL, "A", i - 1>>, "t", FolderA, "A")]

\* The start indexes tried for a queue of n tracks: every 10th, and those next
\* to the half window from either end.
StartIndexes(n) ==
  {i \in 0..(n - 1) : i % 10 = 0 \/ i \in {249, 251, n - 251, n - 249, n - 1}}

\* The calls of setQueue tried: a folder queue longer than MAX_QUEUE_SIZE and a
\* start index in it.
QueueInputs ==
  UNION {{[queue |-> LongQueue(n), startIndex |-> i] : i \in StartIndexes(n)} :
           n \in {MAX_QUEUE_SIZE + 1, 600, MaxQueueLen}}

\* handleAudioPress / playFromFolder: setQueue(queue, startIndex)
SetQueueCall(queue, startIndex) ==
  /\ startIndex \in 0..(Len(queue) - 1)
  /\ audioStore' = setQueue(audioStore, queue, startIndex)
  /\ UNCHANGED <<storeVars, now, favVars, searchVars, syncVars, autoplay, player, statusSubscription, positionUpdateInterval, engines, playCalls>>

\* clearQueue()
ClearQueueCall ==
  /\ audioStore' = clearQueue(audioStore)
  /\ audioStore' # audioStore
  /\ UNCHANGED <<storeVars, now, favVars, searchVars, syncVars, autoplay, player, statusSubscription, positionUpdateInterval, engines, playCalls>>

\* The audio store under setQueue with long folder queues: a queue is set on
\* the store while its queue is empty, and clearQueue empties it again.
QueueInit == NoStore /\ NoSync /\ NoPlayback /\ now = 0 /\ NoFavorites /\ NoSearch

QueueNext ==
  \/ \E in \in QueueInputs : audioStore.queue = <<>> /\ SetQueueCall(in.queue, in.startIndex)
  \/ ClearQueueCall

QueueSpec == QueueInit /\ [][QueueNext]_vars

\* The positions the user seeks to: either side of 98 % of TrackDuration.
SeekPositions == {5, 500, 979, 980, 981, 1000}

\* The session while the first track plays, the engine reporting its duration
\* or not (0).
ThresholdInit ==
  /\ NoSync /\ now = 0 /\ NoFavorites /\ NoSearch
  /\ dbCalls = [c \in 1..MaxDbCalls |-> IdleCall]
  /\ tracks = upsertTrack(HeardA1 @@ DownloadedA2, TrackPartial(TrackA1, "t1"))
  /\ autoplay = TRUE
  /\ player = Some(1)
  /\ statusSubscription = Some(1)
  /\ positionUpdateInterval = Some(1)
  /\ playCalls = [c \in PlayCallIds |-> NoCall]
  /\ \E duration \in {0, TrackDuration} :
        /\ audioStore = [currentTrack |-> Some(QueueA[1]), playbackStatus |-> "playing",
                         duration |-> duration, position |-> 20, error |-> None,
                         queue |-> QueueA, currentIndex |-> 0]
        /\ engines = <<[createAudioPlayer(TrackA1, TrackA1) EXCEPT
                          !.listening = TRUE, !.isLoaded = TRUE, !.duration = duration,
                          !.currentTime = 20, !.playing = TRUE]>>

\* The folder queue of /A once a third track is listed there.
QueueA3 ==
  buildQueueFromFolder(
    WithIds(parseHtmlResponse(PageA2 \o <<AudioLink(<<"A", "t3.mp3">>)>>, FolderA, 0)), FolderA, "A")

\* playFromFolder(QueueA3, 0) has returned, autoplay is on and t1 plays.
AutoplayInit ==
  /\ NoSync /\ now = 0 /\ NoFavorites /\ NoSearch
  /\ dbCalls = [c \in 1..MaxDbCalls |-> IdleCall]
  /\ tracks = upsertTrack(HeardA1 @@ DownloadedA2, TrackPartial(TrackA1, "t1"))
  /\ audioStore = [currentTrack |-> Some(QueueA3[1]), playbackStatus |-> "playing",
                   duration |-> TrackDuration, position |-> 20, error |-> None,
                   queue |-> QueueA3, currentIndex |-> 0]
  /\ autoplay = TRUE
  /\ player = Some(1)
  /\ statusSubscription = Some(1)
  /\ positionUpdateInterval = Some(1)
  /\ engines = <<[createAudioPlayer(TrackA1, TrackA1) EXCEPT
                    !.listening = TRUE, !.isLoaded = TRUE, !.duration = TrackDuration,
                    !.currentTime = 20, !.playing = TRUE]>>
  /\ playCalls = [c \in PlayCallIds |-> NoCall]

\* The session left to itself: the engine, its status callbacks, the timers,
\* the completion handler and the plays it starts.
AutoplayNext ==
  \/ \E c \in PlayCallIds : UnloadFlushed(c)
  \/ \E c \in PlayCallIds, ok \in BOOLEAN : GetTrackStep(c, ok)
  \/ \E c \in PlayCallIds, ok \in BOOLEAN : WaitForLoadStep(c, ok)
  \/ \E c \in PlayCallIds : WaitForLoadTimeout(c)
  \/ \E c \in PlayCallIds : UpsertTrackStep(c)
  \/ \E e \in 1..Len(engines) : EngineLoaded(e)
  \/ \E e \in 1..Len(engines) : \E position \in Positions : EngineProgress(e, position)
  \/ \E c \in PlayCallIds, isBuffering \in BOOLEAN, ok \in BOOLEAN : OnPlaybackStatusUpdate(c, isBuffering, ok)
  \/ \E c \in PlayCallIds, ok \in BOOLEAN : CompletionStep(c, ok)
  \/ \E ok \in BOOLEAN : PositionSaveTick(ok)

AutoplaySpec == AutoplayInit /\ [][AutoplayNext]_vars

\* The session while t1 plays, the user toggling play/pause and pressing stop
\* at any moment; the engine, the completion handler and autoplay run freely.
ToggleNext ==
  \/ TogglePlayPause
  \/ \E c \in PlayCallIds, ok \in BOOLEAN : Stop(c, ok)
  \/ \E c \in PlayCallIds : UnloadFlushed(c)
  \/ \E c \in PlayCallIds, ok \in BOOLEAN : GetTrackStep(c, ok)
  \/ \E c \in PlayCallIds, ok \in BOOLEAN : WaitForLoadStep(c, ok)
  \/ \E c \in PlayCallIds : WaitForLoadTimeout(c)
  \/ \E c \in PlayCallIds : UpsertTrackStep(c)
  \/ \E e \in 1..Len(engines) : EngineLoaded(e)
  \/ \E e \in 1..Len(engines) : \E position \in Positions : EngineProgress(e, position)
  \/ \E c \in PlayCallIds, isBuffering \in BOOLEAN, ok \in BOOLEAN : OnPlaybackStatusUpdate(c, isBuffering, ok)
  \/ \E c \in PlayCallIds, ok \in BOOLEAN : CompletionStep(c, ok)

ToggleSpec == ListenInit /\ [][ToggleNext]_vars

\* The steps the JavaScript runtime takes for the calls in flight: an awaited
\* database call or seek settles, the 100 ms poll or the 30 s timer of
\* waitForLoad fires.
LoadSteps ==
  \/ \E c \in PlayCallIds : UnloadFlushed(c)
  \/ \E c \in PlayCallIds, ok \in BOOLEAN : GetTrackStep(c, ok)
  \/ \E c \in PlayCallIds, ok \in BOOLEAN : WaitForLoadStep(c, ok)
  \/ \E c \in PlayCallIds : WaitForLoadTimeout(c)
  \/ \E c \in PlayCallIds, ok \in BOOLEAN : SeekToStep(c, ok)
  \/ \E c \in PlayCallIds : UpsertTrackStep(c)

\* The session from idle under play() alone: the engine may or may not load a
\* handle, while the timers and the awaited calls of the runtime always settle.
LoadNext ==
  \/ \E c \in PlayCallIds, ok \in BOOLEAN : \E track \in {QueueA[i] : i \in 1..Len(QueueA)} : Play(c, track, ok)
  \/ LoadSteps
  \/ \E e \in 1..Len(engines) : EngineLoaded(e)
  \/ \E c \in PlayCallIds, isBuffering \in BOOLEAN, ok \in BOOLEAN : OnPlaybackStatusUpdate(c, isBuffering, ok)

LoadSpec == PlayInit /\ [][LoadNext]_vars /\ WF_vars(LoadSteps)

\* nextTrack() of the store, where it has a next item
NextTrackCall ==
  /\ audioStore' = nextTrack(audioStore)
  /\ audioStore' # audioStore
  /\ UNCHANGED <<storeVars, now, favVars, searchVars, syncVars, autoplay, player, statusSubscription, positionUpdateInterval, engines, playCalls>>

\* previousTrack() of the store, where it has a previous item
PreviousTrackCall ==
  /\ audioStore' = previousTrack(audioStore)
  /\ audioStore' # audioStore
  /\ UNCHANGED <<storeVars, now, favVars, searchVars, syncVars, autoplay, player, statusSubscription, positionUpdateInterval, engines, playCalls>>

\* The queue store under its four queue operations, in any order: setQueue
\* with a short queue, with queues just over MAX_QUEUE_SIZE and with the
\* longest queue, from either end and around the half window.
WalkNext ==
  \/ \E queue \in {QueueA, QueueA3} : \E startIndex \in 0..(Len(queue) - 1) : SetQueueCall(queue, startIndex)
  \/ \E startIndex \in {0, 250, 251, MAX_QUEUE_SIZE} : SetQueueCall(LongQueue(MAX_QUEUE_SIZE + 1), startIndex)
  \/ \E startIndex \in {0, MaxQueueLen - 1} : SetQueueCall(LongQueue(MaxQueueLen), startIndex)
  \/ NextTrackCall
  \/ PreviousTrackCall
  \/ ClearQueueCall

WalkSpec == QueueInit /\ [][WalkNext]_vars

\* The two writers of the position, the user seeking in the track.
ThresholdNext ==
  \/ \E position \in SeekPositions : SeekTo(position)
  \/ \E ok \in BOOLEAN : PositionSaveTick(ok)
  \/ \E c \in PlayCallIds, ok \in BOOLEAN : Stop(c, ok)
  \/ \E c \in PlayCallIds : UnloadFlushed(c)

ThresholdSpec == ThresholdInit /\ [][ThresholdNext]_vars

KeyOrders(S) == {f \in [1..Cardinality(S) -> S] : \A i, j \in 1..Cardinality(S) : i # j => f[i] # f[j]}

\* The tree mirror and the sync scheduler under concurrent flows.
SyncInit ==
  /\ NoStore /\ NoPlayback /\ now = 0 /\ NoFavorites /\ NoSearch
  /\ seed \in Seeds
  /\ cached_folders = <<>>
  /\ asyncStorage = <<>>
  /\ syncTasks = [t \in SyncTaskIds |-> NoTask]

\* The steps a flow takes on the device: AsyncStorage and database operations,
\* which settle whatever the remote does.
FlowSteps ==
  \/ \E t \in SyncTaskIds, ok \in BOOLEAN : NeedsSyncStep(t, ok)
  \/ \E t \in SyncTaskIds, ok \in BOOLEAN : ReadLocalStep(t, ok)
  \/ \E t \in SyncTaskIds, ok \in BOOLEAN, cbOk \in BOOLEAN : SaveStep(t, ok, cbOk)
  \/ \E t \in SyncTaskIds, ok \in BOOLEAN : MarkSyncedStep(t, ok)
  \/ \E t \in SyncTaskIds, ok \in BOOLEAN : CleanupCheckStep(t, ok)
  \/ \E t \in SyncTaskIds, ok \in BOOLEAN : \E keys \in KeyOrders(syncKeysOf(asyncStorage)) : CleanupKeysStep(t, ok, keys)
  \/ \E t \in SyncTaskIds, ok \in BOOLEAN : CleanupGetStep(t, ok)
  \/ \E t \in SyncTaskIds, ok \in BOOLEAN, okSet \in BOOLEAN : CleanupRemoveStep(t, ok, okSet)
  \/ \E t \in SyncTaskIds, ok \in BOOLEAN : CachedReadStep(t, ok)

\* The steps of the flows; the clock stands still.
MirrorNext ==
  \/ \E t \in SyncTaskIds, kind \in {"passive", "force", "fallback"}, folderPath \in SyncFolders :
       StartSync(t, kind, folderPath)
  \/ \E t \in SyncTaskIds : \E response \in Responses(Task(t).path) : FetchStep(t, response)
  \/ FlowSteps

MirrorSpec == SyncInit /\ [][MirrorNext]_vars

\* The same flows with time passing between their steps.
SyncNext ==
  \/ MirrorNext
  \/ \E instant \in Instants : Advance(instant)

SyncSpec == SyncInit /\ [][SyncNext]_vars

\* The favorites table, empty or beside a bundled snapshot that holds /A.
FavoritePaths == SyncFolders

FavoriteNames == {"Katha", "Kirtan"}

SeedFavorites == <<[ZFOLDERPATH |-> FolderA, ZFOLDERNAME |-> "Katha", ZDATEADDED |-> 0]>>

FavoritesInit ==
  /\ NoStore /\ NoSync /\ NoPlayback /\ now = 0 /\ NoSearch
  /\ favorites = <<>>
  /\ ZFAVORITEFOLDERRECORD \in {<<>>, SeedFavorites}

FavoritesNext ==
  \/ \E folderPath \in FavoritePaths, folderName \in FavoriteNames : AddFavoriteCall(folderPath, folderName)
  \/ \E folderPath \in FavoritePaths : RemoveFavoriteCall(folderPath)
  \/ \E instant \in Instants : Advance(instant)

FavoritesSpec == FavoritesInit /\ [][FavoritesNext]_vars

\* The flows under the scheduling the runtime guarantees: an operation on the
\* device settles, so a flow that can take a step of its own takes one. The
\* await of fetch(url) is resumed by the remote's answer or by a connection
\* error only: no timer and no AbortController bounds it, so FetchStep is
\* under no fairness condition.
\* The children of /A that a listing may hold: a sub-folder and two tracks.
ChildrenOfA ==
  {[name |-> "B", path |-> FolderB, type |-> "folder"],
   [name |-> "t1", path |-> TrackA1, type |-> "audio"],
   [name |-> "t2", path |-> TrackA2, type |-> "audio"]}

\* The rows of cached_folders for a listing of /A, in listing order.
RowsOfA(listing) ==
  [i \in 1..Len(listing) |->
     [id |-> i, parent_path |-> FolderA, item_name |-> listing[i].name, item_path |-> listing[i].path,
      item_type |-> listing[i].type, sort_order |-> i - 1, last_updated |-> 0]]

\* The folder screen of /A over a mirror that holds some of the children of
\* /A in some order: playFromFolder with the items of the screen.
BuildInit ==
  /\ NoStore /\ NoPlayback /\ NoFavorites /\ NoSearch /\ now = 0
  /\ seed = <<>>
  /\ \E S \in SUBSET ChildrenOfA : \E listing \in KeyOrders(S) : cached_folders = RowsOfA(listing)
  /\ asyncStorage = <<>>
  /\ syncTasks = [t \in SyncTaskIds |-> NoTask]

BuildNext ==
  \/ \E c \in PlayCallIds, startIndex \in 0..2, ok \in BOOLEAN :
       PlayFromFolder(c, buildQueueFromFolder(getLocalCachedItems(seed, cached_folders, FolderA), FolderA, "A"),
                      startIndex, ok)
  \/ \E c \in PlayCallIds : UnloadFlushed(c)
  \/ \E c \in PlayCallIds, ok \in BOOLEAN : GetTrackStep(c, ok)
  \/ \E c \in PlayCallIds, ok \in BOOLEAN : WaitForLoadStep(c, ok)
  \/ \E c \in PlayCallIds : WaitForLoadTimeout(c)
  \/ \E c \in PlayCallIds : UpsertTrackStep(c)
  \/ \E e \in 1..Len(engines) : EngineLoaded(e)
  \/ \E e \in 1..Len(engines) : \E position \in Positions : EngineProgress(e, position)

BuildSpec == BuildInit /\ [][BuildNext]_vars

\* A bundled snapshot with three folders to search for.
SearchSeed ==
  <<[Z_PK |-> 1, ZPARENTPATH |-> <<>>, ZITEMNAME |-> <<"k", "i", "r", "t", "a", "n">>, ZITEMPATH |-> <<"Kirtan">>,
     ZITEMTYPE |-> "folder", ZSORTORDER |-> 0, ZLASTUPDATED |-> 0],
    [Z_PK |-> 2, ZPARENTPATH |-> <<>>, ZITEMNAME |-> <<"k", "a", "t", "h", "a">>, ZITEMPATH |-> <<"Katha">>,
     ZITEMTYPE |-> "folder", ZSORTORDER |-> 1, ZLASTUPDATED |-> 0],
    [Z_PK |-> 3, ZPARENTPATH |-> <<>>, ZITEMNAME |-> <<"r", "a", "a", "g", " ", "k", "i", "r", "t", "a", "n">>,
     ZITEMPATH |-> <<"Raag">>, ZITEMTYPE |-> "folder", ZSORTORDER |-> 2, ZLASTUPDATED |-> 0]>>

\* The search box under its user, the debounce timer and the lookups.
SearchInit ==
  /\ NoStore /\ NoPlayback /\ NoFavorites /\ NoSearch /\ now = 0
  /\ seed = SearchSeed
  /\ cached_folders = <<>>
  /\ asyncStorage = <<>>
  /\ syncTasks = [t \in SyncTaskIds |-> NoTask]

SearchNext ==
  \/ \E query \in {<<>>, <<"k">>, <<"k", " ">>, <<"k", "a">>, <<"k", "i">>, <<"K", "i", "r">>} : HandleSearch(query)
  \/ \E c \in 1..MaxSearchCalls : DebounceFires(c)
  \/ \E c \in 1..MaxSearchCalls, ok \in BOOLEAN : LookupSettles(c, ok)
  \/ HandleResultPress

SearchSpec == SearchInit /\ [][SearchNext]_vars

HangSpec == SyncInit /\ [][MirrorNext]_vars /\ WF_vars(FlowSteps)

\* The flows when the remote may also answer with the malformed listing.
ExtractNext ==
  \/ MirrorNext
  \/ \E t \in SyncTaskIds : \E response \in MalformedResponses(Task(t).path) : FetchStep(t, response)

ExtractSpec == SyncInit /\ [][ExtractNext]_vars

(***************************************************************************)
(* Claims about the tracks table, checked under StoreSpec.                 *)
(***************************************************************************)
\* The fields of a partial record paired with the columns they are stored in.
TrackColumns ==
  { <<"trackDuration", "track_duration">>, <<"trackSizeBytes", "track_size_bytes">>,
    <<"currentPlaybackTime", "current_playback_time">>, <<"isDownloaded", "is_downloaded">>,
    <<"localFilePath", "local_file_path">>, <<"lastPlayedDate", "last_played_date">>,
    <<"downloadDate", "download_date">>, <<"isCompleted", "is_completed">> }

\* C1: an upsert of a partial record for a track that already has a record is a
\* merge: every field the partial record leaves unspecified (duration, size,
\* position, downloaded flag, local file path, last played date, download date,
\* completed flag) keeps the value the record had.
C1_UpsertKeepsUnspecified ==
  [][\A url \in TrackUrls : \A track \in StorePartials(url) :
       (url \in DOMAIN tracks /\ UpsertTrackCall(track)) =>
          \A fc \in TrackColumns :
             track[fc[1]] = None => tracks'[url][fc[2]] = tracks[url][fc[2]]]_vars

\* C14: markTrackCompleted(trackUrl, false) on a record with a stored position
\* above 0 leaves the position as it was: the state its second statement
\* yields, run right after the first, has the position the record had before
\* the call.
C14_UnmarkKeepsPosition ==
  [][\A c \in 1..MaxDbCalls, url \in TrackUrls :
       (/\ url \in DOMAIN tracks
        /\ Num(tracks[url].current_playback_time) > 0
        /\ MarkTrackCompletedUpsert(c, url, FALSE)) =>
          markTrackCompletedUpdate(tracks', url, FALSE)[url].current_playback_time
             = tracks[url].current_playback_time]_vars

\* C15: markTrackCompleted(trackUrl, true) leaves a record for trackUrl that is
\* completed and at position 0; its first statement creates the record when
\* there is none.
C15_MarkCompletedResetsPosition ==
  [][\A c \in 1..MaxDbCalls :
       /\ \A url \in TrackUrls : MarkTrackCompletedUpsert(c, url, TRUE) => url \in DOMAIN tracks'
       /\ (dbCalls[c].op = "markTrackCompleted" /\ dbCalls[c].isCompleted /\ MarkTrackCompletedUpdate(c)) =>
             /\ dbCalls[c].url \in DOMAIN tracks'
             /\ tracks'[dbCalls[c].url].is_completed = Some(1)
             /\ tracks'[dbCalls[c].url].current_playback_time = Some(0)]_vars

\* markTrackCompleted(t2, true) ran on an empty table: the record it created
\* is the only one, completed and at position 0.
C15_Witness ==
  /\ DOMAIN tracks = {TrackA2}
  /\ tracks[TrackA2].track_name = fileNameOf(TrackA2)
  /\ tracks[TrackA2].is_completed = Some(1)
  /\ tracks[TrackA2].current_playback_time = Some(0)
  /\ \A c \in 1..MaxDbCalls : dbCalls[c] = IdleCall

(***************************************************************************)
(* Claims about the tree mirror, checked under MirrorSpec.                  *)
(***************************************************************************)
\* The item paths of the mirror entries (pre-seeded or learned) below a folder.
MirrorChildren(parentPath) ==
  {seed[i].ZITEMPATH : i \in {j \in 1..Len(seed) : seed[j].ZPARENTPATH = parentPath}}
    \cup {cached_folders[i].item_path : i \in {j \in 1..Len(cached_folders) : cached_folders[j].parent_path = parentPath}}

\* The item paths of all mirror entries, one per row.
MirrorPaths ==
  [i \in 1..Len(seed) |-> seed[i].ZITEMPATH] \o [i \in 1..Len(cached_folders) |-> cached_folders[i].item_path]

NoDuplicates(paths) == \A i, j \in 1..Len(paths) : i # j => paths[i] # paths[j]

\* C4: saving the same entry set a second time leaves the mirror exactly as the
\* first save left it, and no item path occurs in two rows.
C4_SaveTwiceIsSaveOnce ==
  \A entries \in UNION {{parseHtmlResponse(html, folderPath, now) : html \in RemotePages(folderPath)} : folderPath \in SyncFolders} :
     LET once == saveCachedItems(cached_folders, entries) IN
     /\ saveCachedItems(once, entries) = once
     /\ NoDuplicates([i \in 1..Len(once) |-> once[i].item_path])

\* Two fallback fetches of /A both saved the same two entries.
C4_Witness ==
  /\ seed = <<>>
  /\ Len(cached_folders) = 2
  /\ \A t \in {1, 2} :
        /\ Task(t).kind = "fallback" /\ Task(t).path = FolderA
        /\ Task(t).remote = "listing" /\ ~Task(t).failed /\ Task(t).pc = "done"
        /\ Len(Task(t).result) = 2

\* C5: in every reachable state the mirror holds at most one entry per item
\* path, whatever the interleaving of passive syncs, forced syncs and fallback
\* fetches of the same or of different folders.
C5_OneEntryPerItemPath == NoDuplicates(MirrorPaths)

\* A forced sync and a fallback fetch of /A ran to the end side by side, each
\* having found the mirror empty and saved the listing.
C5_Witness ==
  /\ seed = <<>>
  /\ Len(cached_folders) >= 2
  /\ Task(1).kind = "force" /\ Task(2).kind = "fallback"
  /\ \A t \in {1, 2} :
        /\ Task(t).path = FolderA /\ Task(t).remote = "listing"
        /\ ~Task(t).failed /\ Task(t).pc = "done" /\ Len(Task(t).result) >= 2

\* C6: the local children lookup of a folder returns exactly the mirror entries
\* whose parent path is that folder, pre-seeded or learned at runtime.
C6_LocalLookupIsAllChildren ==
  \A folderPath \in SyncFolders :
     SeenPaths(getLocalCachedItems(seed, cached_folders, folderPath)) = MirrorChildren(folderPath)

\* C7: a forced sync never throws, whatever the outcome of the fetch and of the
\* store operations.
C7_ForceSyncNeverThrows ==
  \A t \in SyncTaskIds : Task(t).kind = "force" => Task(t).outcome # "threw"

\* C8: a forced sync that returns yields the fresh listing when the remote
\* listing is not empty, and otherwise (empty listing, failed fetch, failed
\* store operation) exactly the mirror's children of the folder.
C8_ForceSyncResult ==
  [][\A t \in SyncTaskIds :
       (Task(t).kind = "force" /\ Task(t).outcome = "running" /\ syncTasks'[t].outcome = "returned") =>
          \/ /\ Task(t).apiItems # <<>>
             /\ syncTasks'[t].result = WithIds(Task(t).apiItems)
          \/ /\ Task(t).apiItems = <<>> \/ Task(t).failed
             /\ SeenPaths(syncTasks'[t].result) = MirrorChildren(Task(t).path)
             /\ Len(syncTasks'[t].result) = Cardinality(MirrorChildren(Task(t).path))]_vars

AbsentPaths(task) == SeenPaths(task.apiItems) \ MirrorChildren(task.path)

\* C12: in a passive sync in which nothing fails, onNewItems is invoked if and
\* only if the remote listing holds an item path that no local child of the
\* folder has when the two are compared; it is invoked once the new entries
\* are in the mirror, and with the full remote listing.
C12_OnNewItemsIffNew ==
  [][\A t \in SyncTaskIds :
       (Task(t).kind = "passive" /\ ~syncTasks'[t].failed) =>
          /\ (Task(t).pc = "readLocal" /\ syncTasks'[t].pc # "readLocal") =>
                (syncTasks'[t].pc = "save" <=> AbsentPaths(Task(t)) # {})
          /\ (Task(t).pc = "save" /\ syncTasks'[t].pc # "save") =>
                /\ syncTasks'[t].notified = Some(WithIds(Task(t).apiItems))
                /\ \A i \in 1..Len(Task(t).apiItems) :
                      \E j \in 1..Len(MirrorPaths') : MirrorPaths'[j] = Task(t).apiItems[i].itemPath
          /\ (Task(t).notified = None /\ syncTasks'[t].notified # None) => Task(t).pc = "save"]_vars

\* A link of a listing is a direct child of the parent: a folder one segment
\* below it, or an audio file whose folder is the parent.
IsChildLink(link, parentPath) ==
  IF link.kind = "folder"
  THEN Len(link.path) = Len(parentPath) + 1 /\ SubSeq(link.path, 1, Len(parentPath)) = parentPath
  ELSE Len(link.path) > 0 /\ SubSeq(link.path, 1, Len(link.path) - 1) = parentPath

\* The item path a link is stored under.
LinkItemPath(link) == IF link.kind = "folder" THEN link.path ELSE <<AUDIO_BASE_URL>> \o link.path

\* The position of the first link of the listing with this kind and item path.
FirstLink(html, kind, itemPath) ==
  CHOOSE k \in 1..Len(html) :
     /\ html[k].kind = kind /\ LinkItemPath(html[k]) = itemPath
     /\ \A j \in 1..(k - 1) : ~(html[j].kind = kind /\ LinkItemPath(html[j]) = itemPath)

\* C20: the extractor keeps of a listing exactly the links that are direct
\* children of the parent (a folder link one segment below it, an audio link
\* whose folder is the parent), each item path once, folders before audio
\* files and each kind in the order of first occurrence; from links to /A,
\* /A/B and /A/B/C the children of /A are /A/B and those of /A/B are /A/B/C.
C20_DirectChildrenOnly ==
  /\ \A parentPath \in SyncFolders :
       \A html \in UNION {RemotePages(folderPath) : folderPath \in SyncFolders} :
          LET items == parseHtmlResponse(html, parentPath, now)
              kept == {k \in 1..Len(html) : IsChildLink(html[k], parentPath)}
          IN /\ SeenPaths(items) = {LinkItemPath(html[k]) : k \in kept}
             /\ NoDuplicates([i \in 1..Len(items) |-> items[i].itemPath])
             /\ \A i \in 1..Len(items) :
                   /\ items[i].parentPath = parentPath
                   /\ items[i].sortOrder = i - 1
                   /\ \E k \in kept : html[k].kind = items[i].itemType
                                         /\ LinkItemPath(html[k]) = items[i].itemPath
             /\ \A i, j \in 1..Len(items) :
                   i < j =>
                     \/ items[i].itemType = "folder" /\ items[j].itemType = "audio"
                     \/ /\ items[i].itemType = items[j].itemType
                        /\ FirstLink(html, items[i].itemType, items[i].itemPath)
                             < FirstLink(html, items[j].itemType, items[j].itemPath)
  /\ LET html == <<FolderLink(FolderA), FolderLink(FolderB), FolderLink(<<"A", "01_B", "X">>)>> IN
     /\ SeenPaths(parseHtmlResponse(html, FolderA, now)) = {FolderB}
     /\ SeenPaths(parseHtmlResponse(html, FolderB, now)) = {<<"A", "01_B", "X">>}

\* A sync of /A fetched the listing with the breadcrumb, the sub-folder (twice),
\* a grandchild and two tracks, and extracted the sub-folder and the tracks.
C20_Witness ==
  \E t \in SyncTaskIds :
     /\ Task(t).path = FolderA /\ Task(t).remote = "listing"
     /\ [i \in 1..Len(Task(t).apiItems) |-> Task(t).apiItems[i].itemPath] = <<FolderB, TrackA1, TrackA2>>

(***************************************************************************)
(* Claims about the sync scheduler, checked under SyncSpec.                *)
(***************************************************************************)
\* A folder is stale: no sync timestamp is recorded for it, or the recorded
\* one is more than the retention window (30 days) old.
IsStale(storage, folderPath, date) ==
  \/ SyncKey(folderPath) \notin DOMAIN storage
  \/ date - parseInt(storage[SyncKey(folderPath)]) > 30

\* C9: a passive sync issues a remote fetch only for a stale folder; for a
\* folder whose timestamp lies inside the window it ends at once, with no
\* fetch, no write to the mirror or to the timestamps, and no onNewItems call.
C9_PassiveSyncOnlyWhenStale ==
  [][\A t \in SyncTaskIds :
       (Task(t).kind = "passive" /\ syncTasks'[t] # Task(t)) =>
          /\ (Task(t).remote = "none" /\ syncTasks'[t].remote # "none") => Task(t).pc = "fetch"
          /\ (Task(t).pc # "fetch" /\ syncTasks'[t].pc = "fetch") =>
                Task(t).pc = "needsSync" /\ IsStale(asyncStorage, Task(t).path, now)
          /\ (Task(t).pc = "needsSync" /\ ~IsStale(asyncStorage, Task(t).path, now)) =>
                /\ syncTasks'[t].pc = "done"
                /\ syncTasks'[t].remote = "none"
                /\ syncTasks'[t].notified = None
                /\ UNCHANGED <<cached_folders, asyncStorage, tracks>>]_vars

\* A passive sync of /A ended without a fetch on the last day of the window:
\* the timestamp is 0 and the clock reads 30.
C9_Witness ==
  \E t \in SyncTaskIds :
     /\ Task(t).kind = "passive" /\ Task(t).path = FolderA
     /\ Task(t).outcome = "notNeeded" /\ ~Task(t).failed
     /\ now = 30
     /\ SyncKey(FolderA) \in DOMAIN asyncStorage
     /\ asyncStorage[SyncKey(FolderA)] = <<0>>

\* A passive sync is over, its fetch succeeded and nothing it awaited failed.
PassiveSucceeded(task, remotes) ==
  /\ task.kind = "passive"
  /\ task.pc = "done"
  /\ task.remote \in remotes
  /\ ~task.failed

LiveHandles == {e \in 1..Len(engines) : ~engines[e].removed}

\* C2: whenever the handle of a loaded track at a position p > 0 is torn down
\* (by a play of another track, playNext, playPrevious, a selection from a
\* folder queue, an autoplay advance or stop), the unload that tears it down
\* has before written p and its completion flag to the record keyed by the
\* URL of that track.
C2_FinalPositionSavedForUnloadedTrack ==
  [][\A e \in 1..Len(engines) :
       (~engines[e].removed /\ engines'[e].removed /\ engines[e].isLoaded /\ engines[e].currentTime > 0) =>
          \E c \in PlayCallIds :
             /\ Call(c).pc = "flush" /\ playCalls'[c].pc # "flush"
             /\ Call(c).flushed # None
             /\ Call(c).flushed[1].trackUrl = engines[e].trackUrl
             /\ Call(c).flushed[1].position > 0
             /\ Call(c).flushed[1].isCompleted =
                  isCompletedAt(Call(c).flushed[1].position, engines[e].duration)]_vars

\* C16: no step of the playback session changes the downloaded flag or the
\* local file path of a record: a track recorded as downloaded with a local
\* file still is after it has been played.
C16_SessionKeepsDownloadFields ==
  [][\A u \in DOMAIN tracks :
       /\ tracks'[u].is_downloaded = tracks[u].is_downloaded
       /\ tracks'[u].local_file_path = tracks[u].local_file_path]_vars

\* C17: playTrack creates the engine handle from the local file path when the
\* record of the track says it is downloaded and names a local file, and from
\* the track's URL otherwise (no record, not downloaded, or no local file).
C17_SourcePrecedence ==
  [][Len(engines') > Len(engines) =>
       LET handle == engines'[Len(engines')]
           url == handle.trackUrl
           local == /\ url \in DOMAIN tracks
                    /\ tracks[url].is_downloaded = Some(1)
                    /\ tracks[url].local_file_path # None
       IN /\ Len(engines') = Len(engines) + 1
          /\ \E c \in PlayCallIds : Call(c).pc = "getTrack" /\ Call(c).track[1].trackUrl = url
          /\ handle.uri = IF local THEN tracks[url].local_file_path[1] ELSE url]_vars

\* The downloaded track t2 is loaded from its local file, and t1, which is not
\* downloaded, from its URL.
C17_Witness ==
  /\ \E e \in 1..Len(engines) :
        engines[e].trackUrl = TrackA2 /\ engines[e].uri = getLocalFilePath(TrackA2)
  /\ \E e \in 1..Len(engines) :
        engines[e].trackUrl = TrackA1 /\ engines[e].uri = TrackA1

\* C3: in every reachable state at most one engine handle has been created
\* and not yet removed.
C3_AtMostOneLiveHandle == Cardinality(LiveHandles) <= 1

(***************************************************************************)
(* Claims about a session in which a track plays, checked under ListenSpec.*)
(***************************************************************************)
\* The record natural completion leaves: completed, at position 0.
CompletedRecord(row) == row.is_completed = Some(1) /\ row.current_playback_time = Some(0)

\* A playTrack call for the track with this URL is running in this step.
PlayedAgain(trackUrl) ==
  \E c \in PlayCallIds :
     \/ Call(c).op = "playTrack" /\ Call(c).track # None /\ Call(c).track[1].trackUrl = trackUrl
     \/ playCalls'[c].op = "playTrack" /\ playCalls'[c].track # None
           /\ playCalls'[c].track[1].trackUrl = trackUrl

\* C13: once natural completion has written a track's record (completed,
\* position 0), the record keeps reading so until that track is played again,
\* whatever the session does in between (autoplay advance, selection of
\* another track, stop).
C13_CompletedReadsZeroUntilReplayed ==
  [][\A u \in DOMAIN tracks :
       (CompletedRecord(tracks[u]) /\ ~PlayedAgain(u)) => CompletedRecord(tracks'[u])]_vars

(***************************************************************************)
(* Claims about the queue window, checked under QueueSpec.                 *)
(***************************************************************************)
\* The store holds a window of MAX_QUEUE_SIZE contiguous items of the queue, in
\* their order, its current item is the item at startIndex, and at least
\* after items follow it when that many follow it in the queue (all that
\* follow it otherwise).
WindowAround(store, queue, startIndex, after) ==
  LET windowStart == startIndex - store.currentIndex
      following == Len(store.queue) - 1 - store.currentIndex
      remaining == Len(queue) - 1 - startIndex
  IN /\ Len(store.queue) = MAX_QUEUE_SIZE
     /\ store.currentIndex \in 0..(MAX_QUEUE_SIZE - 1)
     /\ windowStart \in 0..(Len(queue) - MAX_QUEUE_SIZE)
     /\ \A k \in 1..MAX_QUEUE_SIZE : store.queue[k] = queue[windowStart + k]
     /\ store.currentTrack = Some(queue[startIndex + 1])
     /\ IF remaining >= after THEN following >= after ELSE following = remaining

\* C18 as stated: setQueue with a queue longer than MAX_QUEUE_SIZE keeps a
\* window of exactly MAX_QUEUE_SIZE contiguous items whose current item is the
\* item at the start index, followed by at least 250 items when 250 follow it
\* in the queue.
C18_WindowKeepsHalfAfter ==
  [][\A in \in QueueInputs :
       SetQueueCall(in.queue, in.startIndex) => WindowAround(audioStore', in.queue, in.startIndex, 250)]_vars

\* C18, amended: the same window, the current item followed by at least 249
\* items when 249 follow it in the queue, and by all that follow it otherwise.
C18_WindowKeepsStartCentred ==
  [][\A in \in QueueInputs :
       SetQueueCall(in.queue, in.startIndex) => WindowAround(audioStore', in.queue, in.startIndex, 249)]_vars

\* setQueue was called with MaxQueueLen items and start index 500: the window
\* has the item at its index 250, and 249 items follow it.
C18_Witness ==
  /\ Len(audioStore.queue) = MAX_QUEUE_SIZE
  /\ audioStore.currentIndex = 250
  /\ audioStore.currentTrack = Some(LongQueue(MaxQueueLen)[501])
  /\ audioStore.queue[MAX_QUEUE_SIZE] = LongQueue(MaxQueueLen)[750]

(***************************************************************************)
(* Claims about the saved position, checked under ThresholdSpec.           *)
(***************************************************************************)
\* C19: the periodic position writer and the flush of an unload store the
\* engine's position, and store the record as completed exactly when the
\* duration is known (above 0) and position / duration is at least 0.98
\* (49/50): not at 0.979, at 0.98 and at 0.981, and never with duration 0.
C19_CompletedAtThreshold ==
  [][tracks' # tracks =>
       /\ player # None
       /\ audioStore.currentTrack # None
       /\ LET handle == engines[player[1]]
              row == tracks'[audioStore.currentTrack[1].trackUrl]
              reached == handle.duration > 0 /\ 50 * handle.currentTime >= 49 * handle.duration
          IN /\ row.current_playback_time = Some(handle.currentTime)
             /\ row.is_completed = Some(IF reached THEN 1 ELSE 0)]_vars

\* stop flushed the position 98.0 s of a track of 100 s: the record is
\* completed.
C19_Witness ==
  \E c \in PlayCallIds :
     /\ Call(c).op = "stop" /\ Call(c).pc = "flush"
     /\ Call(c).flushed = Some([trackUrl |-> TrackA1, position |-> 980, isCompleted |-> TRUE])
     /\ tracks[TrackA1].current_playback_time = Some(980)
     /\ tracks[TrackA1].is_completed = Some(1)
     /\ engines[1].duration = TrackDuration

\* ---------------------------------------------------------------------------
\* Further claims checked under PlaySpec
\* ---------------------------------------------------------------------------

\* Some stop() returned normally, every call issued before it has returned and
\* no call was issued after it.
StoppedLast ==
  \E c \in PlayCallIds :
    /\ Call(c) = Returned("stop", FALSE)
    /\ \A d \in PlayCallIds : (d < c => Call(d).pc = "done") /\ (d > c => Call(d).pc = "idle")

\* C24: once stop() has completed and no play() is issued afterwards, the
\* session settles idle: status idle, empty queue, currentIndex -1, no current
\* track and no engine handle, also when stop() was called while a play() was
\* still loading.
C24_StopSettlesIdle ==
  StoppedLast =>
    /\ audioStore.playbackStatus = "idle"
    /\ audioStore.queue = <<>>
    /\ audioStore.currentIndex = -1
    /\ audioStore.currentTrack = None
    /\ player = None
    /\ LiveHandles = {}

\* The engine position is more than 3 seconds.
PastThreeSeconds == player # None /\ engines[player[1]].currentTime > 30

\* C25 as stated: with a track current, playPrevious() restarts the track
\* when the engine position is more than 3 seconds; otherwise, if
\* currentIndex > 0, it goes to the previous queue item; otherwise it restarts
\* the current track.
C25_PreviousInEveryState ==
  audioStore.currentTrack # None =>
    playPreviousBranch(audioStore, player) =
      IF PastThreeSeconds THEN "restart"
      ELSE IF audioStore.currentIndex > 0 THEN "previous" ELSE "restart"

\* C25, amended: playPrevious() called while an engine handle exists: if the
\* engine position is more than 3 seconds the track is sought to 0 and queue,
\* currentIndex and currentTrack are unchanged; otherwise, if currentIndex > 0,
\* currentIndex decreases by one and playTrack is started for the previous
\* queue item; otherwise the current track is sought to 0 and the queue is
\* unchanged.
C25_PreviousWithHandle ==
  [][\A c \in PlayCallIds, ok \in BOOLEAN :
       (player # None /\ PlayPrevious(c, ok)) =>
         IF PastThreeSeconds
         THEN /\ engines'[player[1]].currentTime = 0
              /\ audioStore'.queue = audioStore.queue
              /\ audioStore'.currentIndex = audioStore.currentIndex
              /\ audioStore'.currentTrack = audioStore.currentTrack
              /\ playCalls' = playCalls
         ELSE IF audioStore.currentIndex > 0
              THEN /\ audioStore'.currentIndex = audioStore.currentIndex - 1
                   /\ audioStore'.queue = audioStore.queue
                   /\ playCalls'[c].op = "playTrack"
                   /\ playCalls'[c].track = Some(audioStore.queue[audioStore.currentIndex])
              ELSE /\ engines'[player[1]].currentTime = 0
                   /\ audioStore'.queue = audioStore.queue
                   /\ audioStore'.currentIndex = audioStore.currentIndex
                   /\ audioStore'.currentTrack = audioStore.currentTrack
                   /\ playCalls' = playCalls]_vars

\* t2 was selected from the folder queue and loaded, and a second call plays
\* the item before it.
C25_Witness ==
  /\ audioStore.queue = QueueA
  /\ audioStore.currentIndex = 0
  /\ Call(2).op = "playTrack" /\ Call(2).track = Some(QueueA[1]) /\ Call(2).pc = "getTrack"
  /\ \E e \in 1..Len(engines) : engines[e].trackUrl = TrackA2 /\ engines[e].isLoaded /\ engines[e].removed

\* C26: playNext() when currentIndex is the last queue index changes nothing:
\* nextTrack() leaves the store as it is and no playTrack follows; otherwise
\* currentIndex increases by exactly one and playTrack is started for that
\* item of the unchanged queue.
C26_NextAdvancesByOne ==
  [][/\ audioStore.currentIndex = Len(audioStore.queue) - 1 =>
          /\ nextTrack(audioStore) = audioStore
          /\ \A c \in PlayCallIds, ok \in BOOLEAN : ~PlayNext(c, ok)
     /\ \A c \in PlayCallIds, ok \in BOOLEAN :
          PlayNext(c, ok) =>
            /\ audioStore'.currentIndex = audioStore.currentIndex + 1
            /\ audioStore'.queue = audioStore.queue
            /\ playCalls'[c].op = "playTrack"
            /\ playCalls'[c].track = Some(audioStore.queue[audioStore.currentIndex + 2])]_vars

\* t1 was selected from the folder queue and loaded, and a second call plays
\* the item after it, the last of the queue.
C26_Witness ==
  /\ audioStore.queue = QueueA
  /\ audioStore.currentIndex = Len(QueueA) - 1
  /\ Call(2).op = "playTrack" /\ Call(2).track = Some(QueueA[2]) /\ Call(2).pc = "getTrack"
  /\ \E e \in 1..Len(engines) : engines[e].trackUrl = TrackA1 /\ engines[e].isLoaded /\ engines[e].removed

\* ---------------------------------------------------------------------------
\* Further claims checked under ListenSpec
\* ---------------------------------------------------------------------------

\* C28: when a status callback finds the engine within 0.5 s of the duration
\* and not playing, the completion handler it starts persists isCompleted =
\* true and position = 0 for the just-finished track (the track of the engine
\* handle that ended); after that write, with autoplay enabled and a next
\* queue item it advances to that item and plays it, and otherwise (no next
\* item, or autoplay disabled) it sets the status to paused and leaves
\* currentIndex and currentTrack unchanged.
C28_CompletionPersistsThenAdvances ==
  [][\A c \in PlayCallIds :
       /\ (/\ Call(c).pc = "idle"
           /\ playCalls'[c].op = "handleTrackCompletion"
           /\ playCalls'[c].pc = "updateTrackPosition"
           /\ ~playCalls'[c].failed) =>
             LET finished == engines[player[1]].trackUrl
             IN /\ playCalls'[c].track[1].trackUrl = finished
                /\ finished \in DOMAIN tracks => CompletedRecord(tracks'[finished])
       /\ (Call(c).pc = "updateTrackPosition" /\ ~Call(c).failed /\ playCalls'[c] # Call(c)) =>
             IF autoplay /\ audioStore.currentIndex + 1 < Len(audioStore.queue)
             THEN /\ playCalls'[c].op = "playTrack"
                  /\ playCalls'[c].track = Some(audioStore.queue[audioStore.currentIndex + 2])
                  /\ audioStore'.currentIndex = audioStore.currentIndex + 1
             ELSE /\ playCalls'[c].pc = "done"
                  /\ audioStore'.playbackStatus = "paused"
                  /\ audioStore'.currentIndex = audioStore.currentIndex
                  /\ audioStore'.currentTrack = audioStore.currentTrack]_vars

\* ---------------------------------------------------------------------------
\* Claims checked under AutoplaySpec
\* ---------------------------------------------------------------------------

\* The engine handles that have reached the end of their track.
EndedHandles ==
  {e \in 1..Len(engines) :
     engines[e].duration > 0 /\ engines[e].currentTime >= engines[e].duration - 5}

\* The plays started so far.
PlaysStarted == {c \in PlayCallIds : Call(c).op = "playTrack"}

\* C29: one natural completion advances the queue by exactly one item under
\* autoplay: while t1's handle is the only one that has reached its end,
\* however many status callbacks it delivers, currentIndex has grown by at
\* most 1 and at most one play() was started, for the item after t1.
C29_OneCompletionOneAdvance ==
  EndedHandles \subseteq {1} =>
    /\ audioStore.currentIndex <= 1
    /\ Cardinality(PlaysStarted) <= 1
    /\ \A c \in PlaysStarted : Call(c).pc # "done" => Call(c).track = Some(QueueA3[2])

\* ---------------------------------------------------------------------------
\* Claims checked under ToggleSpec
\* ---------------------------------------------------------------------------

\* C27: togglePlayPause() pauses when the status is playing (the engine is
\* paused and the status becomes paused), resumes when the status is paused
\* (the engine plays and the status becomes playing), and when the status is
\* loading it changes neither the status nor the engine's play/pause state.
C27_ToggleByStatus ==
  [][/\ togglePlayPauseBranch(audioStore, player) =
          CASE audioStore.playbackStatus = "playing" -> "pause"
            [] audioStore.playbackStatus = "paused" -> "resume"
            [] OTHER -> "return"
     /\ TogglePlayPause =>
          /\ audioStore.playbackStatus = "playing" =>
               audioStore'.playbackStatus = "paused" /\ ~engines'[player[1]].playing
          /\ audioStore.playbackStatus = "paused" =>
               audioStore'.playbackStatus = "playing" /\ engines'[player[1]].playing
          /\ audioStore.playbackStatus # "loading"]_vars

\* C34: the periodic position-save timer is cancelled whenever playback is
\* paused, stopped or errored: in every state with status paused, idle or error
\* no position-save timer is armed.
C34_NoTimerUnlessPlaying ==
  audioStore.playbackStatus \in {"paused", "idle", "error"} => positionUpdateInterval = None

\* ---------------------------------------------------------------------------
\* Claims on the session's handle, checked under PlaySpec
\* ---------------------------------------------------------------------------

\* C30: every playback position (and completion flag) written to the record
\* of a track U by the periodic writer, the unload flush or the completion
\* handler comes from an engine handle loaded for U: a step that leaves U's
\* record with a position above 0 or marked completed is taken while the
\* session's handle is a handle of U, and the position is the one it reports.
C30_PositionFromOwnHandle ==
  [][\A u \in DOMAIN tracks :
       (/\ tracks'[u] # tracks[u]
        /\ Num(tracks'[u].current_playback_time) > 0 \/ tracks'[u].is_completed = Some(1)) =>
          /\ player # None
          /\ engines[player[1]].trackUrl = u
          /\ Num(tracks'[u].current_playback_time) \in {0, engines[player[1]].currentTime}]_vars

\* Both calls of the behaviour are plays that returned without an error.
BothPlaysSettled ==
  \A c \in PlayCallIds : Call(c) = Returned("playTrack", FALSE)

\* C31: when two play() calls overlap, once both have settled the session's
\* engine handle is loaded with the source of the current track, the current
\* track is the one of the play issued last, and nothing of the superseded
\* load remains (no second live handle). Stated at the step that settles the
\* second of two plays.
C31_LastPlayWins ==
  [][(~BothPlaysSettled /\ BothPlaysSettled') =>
       /\ player' # None
       /\ audioStore'.currentTrack # None
       /\ engines'[player'[1]].trackUrl = audioStore'.currentTrack[1].trackUrl
       /\ LiveHandles' = {player'[1]}
       /\ Call(MaxPlayCalls).pc # "done" => audioStore'.currentTrack = Call(MaxPlayCalls).track]_vars

\* C33: once a play() has failed and the session is in status error, the
\* status stays error until an explicit play() or stop(): a step that belongs
\* to no call of the session (an engine event, a status callback, a timer)
\* leaves the status error and starts no load.
C33_ErrorUntilExplicitCall ==
  [][(audioStore.playbackStatus = "error" /\ playCalls' = playCalls) =>
       /\ audioStore'.playbackStatus = "error"
       /\ Len(engines') = Len(engines)]_vars

\* ---------------------------------------------------------------------------
\* Claims checked under WalkSpec
\* ---------------------------------------------------------------------------

\* C35: in every reachable state of the queue store under setQueue (with a
\* start index inside the given queue), nextTrack, previousTrack and
\* clearQueue, either the queue is empty with currentIndex -1 and no current
\* track, or 0 <= currentIndex < queue length, currentTrack is
\* queue[currentIndex] and the queue has at most 500 items.
C35_IndexInsideQueue ==
  \/ /\ audioStore.queue = <<>>
     /\ audioStore.currentIndex = -1
     /\ audioStore.currentTrack = None
  \/ /\ 0 <= audioStore.currentIndex
     /\ audioStore.currentIndex < Len(audioStore.queue)
     /\ audioStore.currentTrack = Some(audioStore.queue[audioStore.currentIndex + 1])
     /\ Len(audioStore.queue) <= 500

\* A queue of 501 tracks was set at its last track, which left the window of
\* its last 500 tracks, and the store walked back to the head of the window.
C35_Witness ==
  /\ Len(audioStore.queue) = 500
  /\ audioStore.queue[1] = LongQueue(MAX_QUEUE_SIZE + 1)[2]
  /\ audioStore.currentIndex = 0
  /\ audioStore.currentTrack = Some(LongQueue(MAX_QUEUE_SIZE + 1)[2])

\* ---------------------------------------------------------------------------
\* Claims checked under LoadSpec
\* ---------------------------------------------------------------------------

\* The session's handle has not reported isLoaded (or there is no handle).
NotReady == player = None \/ ~engines[player[1]].isLoaded

\* C32: if the engine never reports ready after play(), the wait ends by the
\* 30 s timer and the session is then in status error with an error message
\* that is not empty; no play() stays in its wait for the load forever. Every
\* call that waits for the load leaves the wait, and a call that leaves it
\* while the handle is not ready has failed and left the status error.
C32_LoadWaitEnds ==
  /\ \A c \in PlayCallIds : (Call(c).pc = "waitForLoad") ~> (Call(c).pc # "waitForLoad")
  /\ [][\A c \in PlayCallIds :
          (Call(c).pc = "waitForLoad" /\ playCalls'[c].pc # "waitForLoad" /\ NotReady) =>
             /\ playCalls'[c] = Returned("playTrack", TRUE)
             /\ audioStore'.playbackStatus = "error"
             /\ audioStore'.error # None
             /\ audioStore'.error[1] # ""]_vars

\* A play whose handle never reported isLoaded ran into the timer of
\* waitForLoad.
C32_Witness ==
  /\ Call(1) = Returned("playTrack", TRUE)
  /\ Call(2).pc = "idle"
  /\ player # None /\ ~engines[player[1]].isLoaded
  /\ audioStore.playbackStatus = "error"
  /\ audioStore.error = Some("Load timeout")

\* ---------------------------------------------------------------------------
\* Claims on the cleanup of the sync timestamps, checked under SyncSpec
\* ---------------------------------------------------------------------------

\* The elements of a sequence.
Range(seq) == {seq[i] : i \in 1..Len(seq)}

\* C36: a cleanup pass that finds more sync timestamps than the cap evicts
\* timestamps until the count no longer exceeds the cap, and only the oldest
\* ones: of the timestamps the pass read, every one it evicts is no newer than
\* every one it retains, at most MAX_SYNC_ENTRIES are retained, the keys it
\* removes are the ones it chose, and the cleanup key is neither counted nor
\* evicted.
C36_CleanupEvictsOldest ==
  [][\A t \in SyncTaskIds :
       /\ (Task(t).pc = "cleanupGet" /\ syncTasks'[t].pc = "cleanupRemove") =>
            LET found == Range(Task(t).keys) \cap DOMAIN asyncStorage
                evicted == Range(syncTasks'[t].keys)
            IN /\ CLEANUP_KEY \notin Range(Task(t).keys)
               /\ Cardinality(Range(Task(t).keys)) > MAX_SYNC_ENTRIES
               /\ evicted \subseteq found
               /\ Cardinality(found \ evicted) <= MAX_SYNC_ENTRIES
               /\ \A e \in evicted, r \in found \ evicted :
                    parseInt(asyncStorage[e]) <= parseInt(asyncStorage[r])
       /\ (Task(t).pc = "cleanupRemove" /\ syncTasks'[t].pc = "done" /\ asyncStorage' # asyncStorage) =>
            /\ DOMAIN asyncStorage \ DOMAIN asyncStorage' \subseteq Range(Task(t).keys)
            /\ Range(Task(t).keys) \cap DOMAIN asyncStorage' = {}
            /\ CLEANUP_KEY \notin Range(Task(t).keys)
            /\ \A k \in DOMAIN asyncStorage' \ {CLEANUP_KEY} : asyncStorage'[k] = asyncStorage[k]]_vars

\* /A was synced at 0 and /A/01_B at a later instant; the pass that followed
\* has evicted the timestamp of /A and kept the one of /A/01_B.
C36_Witness ==
  /\ SyncKey(FolderA) \notin DOMAIN asyncStorage
  /\ SyncKey(FolderB) \in DOMAIN asyncStorage
  /\ parseInt(asyncStorage[SyncKey(FolderB)]) > 0
  /\ CLEANUP_KEY \in DOMAIN asyncStorage
  /\ \E t \in SyncTaskIds : Task(t).pc = "done" /\ Task(t).path = FolderA /\ Task(t).marked = Some(0)

\* ---------------------------------------------------------------------------
\* Claims on the mirror under sync, checked under MirrorSpec
\* ---------------------------------------------------------------------------

\* C37: sync is additive only: no step of a passive sync, a forced sync or a
\* fallback fetch deletes a mirror entry or changes a field of an existing
\* one; the rows of cached_folders stay as they are, rows are only added, and
\* the bundled snapshot is never written.
C37_SyncOnlyAdds ==
  [][/\ Len(cached_folders') >= Len(cached_folders)
     /\ \A i \in 1..Len(cached_folders) : cached_folders'[i] = cached_folders[i]
     /\ seed' = seed]_vars

\* t2.mp3 is in the mirror, and a forced sync of /A whose listing did not
\* hold t2.mp3 has run to its end.
C37_Witness ==
  /\ \E i \in 1..Len(cached_folders) : cached_folders[i].item_path = TrackA2
  /\ \E t \in SyncTaskIds :
       /\ Task(t).kind = "force" /\ Task(t).path = FolderA
       /\ Task(t).pc = "done" /\ Task(t).remote = "listing" /\ ~Task(t).failed
       /\ Task(t).marked # None
       /\ Len(Task(t).result) > 0
       /\ \A j \in 1..Len(Task(t).result) : Task(t).result[j].itemPath # TrackA2

\* The mirror, bundled or learned, holds no child of the folder.
NoLocalEntries(folderPath) ==
  /\ \A i \in 1..Len(seed) : seed[i].ZPARENTPATH # folderPath
  /\ \A i \in 1..Len(cached_folders) : cached_folders[i].parent_path # folderPath

\* A read of a folder's contents (getAllCachedItems) returned what its
\* fallback fetch listed.
ReturnedFetched(t) ==
  /\ Task(t).kind = "fallback" /\ Task(t).pc = "done"
  /\ Task(t).remote = "listing" /\ Len(Task(t).result) > 0

\* C38: reading a folder's contents consults the local mirror first and
\* fetches only when the local lookup yields no entries; a failed fetch with
\* no cached data yields an empty list and no error; the entries a successful
\* fallback fetch returned are in the mirror as children of the folder, so
\* that the next read of the folder finds local entries and does not fetch.
C38_LocalFirstThenFetch ==
  /\ [][\A t \in SyncTaskIds :
          /\ (syncTasks'[t].kind = "fallback" /\ syncTasks'[t].pc = "fetch" /\ Task(t).pc # "fetch") =>
               Task(t).pc = "readLocal" /\ NoLocalEntries(Task(t).path)
          /\ (Task(t).kind = "fallback" /\ Task(t).pc = "readLocal" /\ ~NoLocalEntries(Task(t).path)
                 /\ syncTasks'[t] # Task(t) /\ ~syncTasks'[t].failed) =>
               /\ syncTasks'[t].pc = "done" /\ syncTasks'[t].remote = "none"
               /\ Len(syncTasks'[t].result) > 0
          /\ (Task(t).kind = "fallback" /\ Task(t).pc = "fetch" /\ syncTasks'[t].remote = "failed") =>
               /\ syncTasks'[t].pc = "done" /\ syncTasks'[t].outcome = "returned"
               /\ syncTasks'[t].result = <<>>]_vars
  /\ [](\A t \in SyncTaskIds :
          ReturnedFetched(t) =>
            \A j \in 1..Len(Task(t).result) :
              \E i \in 1..Len(cached_folders) :
                /\ cached_folders[i].item_path = Task(t).result[j].itemPath
                /\ cached_folders[i].parent_path = Task(t).path)

\* A read of /A fetched its listing and returned it, and the next read of /A
\* returned local entries without a fetch.
C38_Witness ==
  /\ ReturnedFetched(1) /\ Task(1).path = FolderA
  /\ Task(2).kind = "fallback" /\ Task(2).path = FolderA /\ Task(2).pc = "done"
  /\ Task(2).remote = "none" /\ Len(Task(2).result) > 0

\* ---------------------------------------------------------------------------
\* Claims checked under SearchSpec
\* ---------------------------------------------------------------------------

\* C39 as stated: search is last-request-wins, so the displayed results never
\* belong to a superseded query: a result list on display is the result list
\* of the most recently requested query.
C39_DisplayedIsLatest ==
  searchResults # <<>> => searchResults = searchCachedItems(seed, latestQueryRef)

\* C39, amended: for any sequence of queries and any order in which their
\* lookups complete, a result list is applied to the displayed results only
\* if its query is the most recently requested one when its lookup completes,
\* and a lookup whose query has been superseded leaves the displayed results
\* as they are; the displayed results change in no other way than by being
\* cleared.
C39_AppliedOnlyIfLatest ==
  [][/\ \A c \in 1..MaxSearchCalls :
          (searches[c].pc = "lookup" /\ searches'[c].pc = "done") =>
             IF searches[c].query = latestQueryRef
             THEN searchResults' \in {searchResults, searchCachedItems(seed, searches[c].query)}
             ELSE searchResults' = searchResults
     /\ (searchResults' # searchResults /\ searchResults' # <<>>) =>
          \E c \in 1..MaxSearchCalls :
             /\ searches[c].pc = "lookup" /\ searches'[c].pc = "done"
             /\ searches[c].query = latestQueryRef
             /\ latestQueryRef' = latestQueryRef]_vars

\* Two lookups overlapped: the one of the latest query has completed and its
\* results are on display, the one of the superseded query is still in flight
\* and would bring other results.
C39_Witness ==
  /\ searches[1].pc = "lookup" /\ searches[1].query # latestQueryRef
  /\ searches[2].pc = "done" /\ searches[2].query = latestQueryRef
  /\ searchResults = searchCachedItems(seed, latestQueryRef)
  /\ searchCachedItems(seed, searches[1].query) # searchResults
  /\ ~isSearching

\* ---------------------------------------------------------------------------
\* Claims checked under BuildSpec
\* ---------------------------------------------------------------------------

\* The items on the folder screen of /A.
ItemsOfA == getLocalCachedItems(seed, cached_folders, FolderA)

\* C40: buildQueueFromFolder returns exactly the audio entries of the given
\* children, in their order in the input, each as a QueueItem with trackUrl =
\* itemPath, trackName = itemName and the given folder path and name; folder
\* entries never appear in the queue. The queue of the store, once
\* playFromFolder has set it, is that list.
C40_QueueIsAudioChildren ==
  LET audio == SelectSeq(ItemsOfA, LAMBDA item : item.itemType = "audio")
      queue == buildQueueFromFolder(ItemsOfA, FolderA, "A")
  IN /\ Len(queue) = Len(audio)
     /\ \A k \in 1..Len(audio) :
          queue[k] = [trackUrl |-> audio[k].itemPath, trackName |-> audio[k].itemName,
                      folderPath |-> FolderA, folderName |-> "A"]
     /\ \A k \in 1..Len(queue), i \in 1..Len(ItemsOfA) :
          ItemsOfA[i].itemType = "folder" => queue[k].trackUrl # ItemsOfA[i].itemPath
     /\ audioStore.queue \in {<<>>, queue}

\* The screen lists t2, the sub-folder and t1, in this order, and the queue
\* of the store holds t2 and t1.
C40_Witness ==
  /\ Len(ItemsOfA) = 3
  /\ ItemsOfA[1].itemPath = TrackA2 /\ ItemsOfA[2].itemType = "folder" /\ ItemsOfA[3].itemPath = TrackA1
  /\ Len(audioStore.queue) = 2
  /\ audioStore.queue[1].trackUrl = TrackA2 /\ audioStore.queue[1].trackName = "t2"
  /\ audioStore.queue[2].trackUrl = TrackA1 /\ audioStore.queue[2].folderPath = FolderA

\* ---------------------------------------------------------------------------
\* Claims checked under ExtractSpec
\* ---------------------------------------------------------------------------

\* C21: the structural extractor never throws: whatever listing a fetch hands
\* to it, malformed escapes in link parameters included, it returns a list of
\* entries, so no fetch ends with the extractor having raised an error.
C21_ExtractorNeverThrows ==
  \A t \in SyncTaskIds : Task(t).remote # "malformed"

\* ---------------------------------------------------------------------------
\* Claims checked under HangSpec
\* ---------------------------------------------------------------------------

\* C22: a remote fetch never hangs: a forced sync or a fallback folder load
\* that waits for the remote's answer eventually returns to its caller, also
\* when the remote never responds.
C22_FetchNeverHangs ==
  \A t \in SyncTaskIds :
    (Task(t).kind \in {"force", "fallback"} /\ Task(t).pc = "fetch") ~> (Task(t).pc = "done")

\* ---------------------------------------------------------------------------
\* Claims checked under FavoritesSpec
\* ---------------------------------------------------------------------------

ListedPaths == {f.folderPath : f \in getFavorites(ZFAVORITEFOLDERRECORD, favorites)}

ExistingPaths == {folderPath \in FavoritePaths : isFavorite(favorites, folderPath)}

\* C23: after any sequence of add and remove calls, a snapshot of favorites
\* being bundled or not: add(p, name) makes exists(p) true and leaves the
\* record of an already present p (and every other path) as it was,
\* remove(p) makes exists(p) false and leaves every other path as it was,
\* and list() holds exactly the paths for which exists is true.
C23_FavoritesListIsExists ==
  [][/\ \A p \in FavoritePaths, name \in FavoriteNames :
          AddFavoriteCall(p, name) =>
            /\ isFavorite(favorites', p)
            /\ isFavorite(favorites, p) => favorites'[p] = favorites[p]
            /\ \A q \in FavoritePaths \ {p} :
                 /\ isFavorite(favorites', q) <=> isFavorite(favorites, q)
                 /\ isFavorite(favorites, q) => favorites'[q] = favorites[q]
     /\ \A p \in FavoritePaths :
          RemoveFavoriteCall(p) =>
            /\ ~isFavorite(favorites', p)
            /\ \A q \in FavoritePaths \ {p} :
                 /\ isFavorite(favorites', q) <=> isFavorite(favorites, q)
                 /\ isFavorite(favorites, q) => favorites'[q] = favorites[q]
     /\ ListedPaths' = ExistingPaths']_vars

====
